---- MODULE Spec2Model ----
(***************************************************************************)
(* A model of Anytron's core: episode identification, directory scanning,  *)
(* subtitle source selection, subtitle parsing and the parallel frame      *)
(* extraction, each translated from the Rust source under src/src.         *)
(*                                                                         *)
(* Text is modelled as a sequence of one-character strings, so that        *)
(* splitting, trimming, searching and number parsing are computed the way  *)
(* the code computes them.                                                 *)
(***************************************************************************)
EXTENDS Integers, Sequences, FiniteSets, TLC

VARIABLES
    \* ---- frame extraction (extractor/ffmpeg.rs, cli/commands.rs) ----
    all_entries,    \* generate: the (episode, entries) pairs handed to the extractor
    thumb_width,    \* FrameExtractor.thumb_width
    jobs,           \* FrameExtractor.jobs: NoJobs (None) or a thread count
    files,          \* the output tree: the set of image files that exist
    pool_threads,   \* rayon's global pool: 0 while not built, else its size
    gen_pc,         \* position of generate: "start", "loop", "ok", "err"
    ep_idx,         \* generate: index of the episode being extracted
    ef_pc,          \* position of extract_frames: "idle", "running", "returned"
    tasks,          \* extract_frames: the batch of ExtractionTask
    pc,             \* per task: position inside the closure / execute
    result,         \* per task: the Result execute returned
    invoked,        \* per task: the tool invocations execute made, in order
    both_at_start,  \* per task: what the "both exist" check of execute saw
    full_at_begin,  \* whether every output of the batch existed when it began
    late_starts,    \* tasks of the batch started after a task of it had failed
    progress,       \* the shared progress counter of this generate run
    ef_ret,         \* what the last extract_frames call returned
    \* ---- episode identifier (discovery/episode.rs) ----
    name_arg,       \* the argument of EpisodeId::from_filename
    parsed,         \* what it returned
    \* ---- external subtitle selection (discovery/scanner.rs) ----
    cands,          \* the argument of select_best_external_subtitle
    best,           \* what it returned
    \* ---- directory scan (discovery/scanner.rs) ----
    root_exists,    \* whether the scanner's root exists
    tree,           \* the directory entries under the root, in walk order
    seasons_filter, \* Scanner.seasons_filter
    episodes_filter,\* Scanner.episodes_filter
    scan_pc,        \* where scan is: "start", "walk", "match", "done"
    walk_idx,       \* the entry the walk is at
    video_files,    \* scan's map from episode id to video path
    subtitle_files, \* scan's map from episode id to subtitle paths
    pending,        \* the keys of video_files the matching loop has yet to visit
    episodes,       \* scan's vector of episodes, before the sort
    probes,         \* history: the calls of extract_best_subtitle and their outcomes
    scan_ret,       \* what scan returned
    \* ---- embedded stream selection (extractor/subtitle.rs) ----
    streams,        \* the argument of select_best_stream
    chosen,         \* what it returned
    \* ---- SRT and WebVTT parsing (subtitle/srt.rs, subtitle/vtt.rs) ----
    sub_format,     \* "srt" or "vtt": which parse_str is called
    blocks_in,      \* the blocks the file was written from
    content,        \* the content of the file
    parse_ret,      \* what parse_str returned
    \* ---- ASS parsing (subtitle/ass.rs) ----
    ass_lines_in,   \* the lines the file was written from
    ass_content,    \* the content of the file
    ass_pc,         \* where parse_str is: "start", "loop", "done"
    ass_lines,      \* the lines parse_str goes over
    line_num,       \* the loop's line_num (0-based)
    in_events_section,
    format_indices,
    ass_index,      \* parse_str's index
    ass_entries,    \* parse_str's entries
    ass_ret,        \* what parse_str returned
    \* ---- timestamp parsing (subtitle/types.rs) ----
    ts_format,      \* "srt", "ass" or "vtt": which Timestamp parser is called
    ts_token,       \* its argument
    ts_ret,         \* what it returned
    \* ---- quality settings (extractor/ffmpeg.rs) ----
    quality_arg,    \* the argument of FrameExtractor::with_quality (a u8)
    quality,        \* FrameExtractor.quality, copied into every task
    quality_pc,     \* "new", "built", "frame", "thumb"
    frame_qscale,   \* the -q:v argument of the frame invocation
    thumb_qscale,   \* the -q:v argument of the thumbnail invocation
    \* ---- EpisodeId::new (discovery/episode.rs) ----
    new_season,     \* the arguments of EpisodeId::new
    new_episode,
    made,           \* what it returned
    \* ---- the worker pool over several extract_frames calls (extractor/ffmpeg.rs) ----
    global_pool,    \* rayon's global pool: 0 while not built, else its size
    pool_calls,     \* history: the extract_frames calls of the process, in order
    \* ---- repeated scans of one root (discovery/scanner.rs) ----
    scan_history    \* history: the results and the probes of the earlier scans

extractVars == <<all_entries, thumb_width, jobs, files, pool_threads, gen_pc,
                 ep_idx, ef_pc, tasks, pc, result, invoked, both_at_start,
                 full_at_begin, late_starts, progress, ef_ret>>

episodeVars == <<name_arg, parsed>>

scoreVars == <<cands, best>>

scanVars == <<root_exists, tree, seasons_filter, episodes_filter, scan_pc, walk_idx,
              video_files, subtitle_files, pending, episodes, probes, scan_ret>>

streamVars == <<streams, chosen>>

parseVars == <<sub_format, blocks_in, content, parse_ret>>

assVars == <<ass_lines_in, ass_content, ass_pc, ass_lines, line_num, in_events_section,
             format_indices, ass_index, ass_entries, ass_ret>>

timestampVars == <<ts_format, ts_token, ts_ret>>

qualityVars == <<quality_arg, quality, quality_pc, frame_qscale, thumb_qscale>>

newIdVars == <<new_season, new_episode, made>>

poolVars == <<global_pool, pool_calls>>

rescanVars == <<scan_history>>

vars == <<extractVars, episodeVars, scoreVars, scanVars, streamVars, parseVars, assVars, timestampVars, qualityVars, newIdVars, poolVars, rescanVars>>

\* what each component leaves alone
notExtract == <<episodeVars, scoreVars, scanVars, streamVars, parseVars, assVars, timestampVars, qualityVars, newIdVars, poolVars, rescanVars>>

notEpisode == <<extractVars, scoreVars, scanVars, streamVars, parseVars, assVars, timestampVars, qualityVars, newIdVars, poolVars, rescanVars>>

notScore == <<extractVars, episodeVars, scanVars, streamVars, parseVars, assVars, timestampVars, qualityVars, newIdVars, poolVars, rescanVars>>

notScan == <<extractVars, episodeVars, scoreVars, streamVars, parseVars, assVars, timestampVars, qualityVars, newIdVars, poolVars, rescanVars>>

notStream == <<extractVars, episodeVars, scoreVars, scanVars, parseVars, assVars, timestampVars, qualityVars, newIdVars, poolVars, rescanVars>>

notParse == <<extractVars, episodeVars, scoreVars, scanVars, streamVars, assVars, timestampVars, qualityVars, newIdVars, poolVars, rescanVars>>

notAss == <<extractVars, episodeVars, scoreVars, scanVars, streamVars, parseVars, timestampVars, qualityVars, newIdVars, poolVars, rescanVars>>

notTimestamp == <<extractVars, episodeVars, scoreVars, scanVars, streamVars, parseVars, assVars, qualityVars, newIdVars, poolVars, rescanVars>>

notQuality == <<extractVars, episodeVars, scoreVars, scanVars, streamVars, parseVars, assVars, timestampVars, newIdVars, poolVars, rescanVars>>

notNewId == <<extractVars, episodeVars, scoreVars, scanVars, streamVars, parseVars, assVars, timestampVars, qualityVars, poolVars, rescanVars>>

notPool == <<extractVars, episodeVars, scoreVars, scanVars, streamVars, parseVars, assVars, timestampVars, qualityVars, newIdVars, rescanVars>>

notRescan == <<extractVars, episodeVars, scoreVars, scanVars, streamVars, parseVars, assVars, timestampVars, qualityVars, newIdVars, poolVars>>

(***************************************************************************)
(* Bounds of the model.                                                    *)
(***************************************************************************)
MaxTasks == 3          \* subtitle entries over all episodes of one run
DefaultThreads == 2    \* rayon's default pool size (available parallelism)
MaxNameParts == 2      \* fragments a file name is made of
MaxCandidates == 3     \* subtitle files of one episode
MaxFiles == 3          \* directory entries under the scanned root
MaxStreams == 2        \* subtitle streams of one container
MaxBlocks == 2         \* blocks of an SRT or WebVTT file
MaxLines == 4          \* lines of an ASS file
MaxDialogues == 2      \* Dialogue lines after the Format line of an [Events] section
MaxCalls == 3          \* extract_frames calls of one process
MaxScans == 2          \* scans of one root

(***************************************************************************)
(* Generic helpers.                                                        *)
(***************************************************************************)
Range(s) == {s[i] : i \in DOMAIN s}

Min2(a, b) == IF a <= b THEN a ELSE b

\* Option::None of a thread count, and a Result not yet produced
NoJobs == 0

NoResult == [kind |-> "None"]

RECURSIVE SeqsUpTo(_, _)
SeqsUpTo(S, n) ==
    IF n = 0 THEN {<<>>}
    ELSE LET shorter == SeqsUpTo(S, n - 1)
         IN  shorter \cup {Append(s, x) : s \in {t \in shorter : Len(t) = n - 1}, x \in S}

(***************************************************************************)
(* Text: a string is a sequence of one-character strings.                  *)
(***************************************************************************)
Digits == <<"0", "1", "2", "3", "4", "5", "6", "7", "8", "9">>

IsDigit(c) == \E i \in DOMAIN Digits : Digits[i] = c

DigitVal(c) == (CHOOSE i \in DOMAIN Digits : Digits[i] = c) - 1

UpperCase == <<"A","B","C","D","E","F","G","H","I","J","K","L","M",
               "N","O","P","Q","R","S","T","U","V","W","X","Y","Z">>

LowerCase == <<"a","b","c","d","e","f","g","h","i","j","k","l","m",
               "n","o","p","q","r","s","t","u","v","w","x","y","z">>

\* char::to_lowercase / to_ascii_lowercase on the characters the model uses
LowerOf == [c \in Range(UpperCase) |-> LowerCase[CHOOSE i \in DOMAIN UpperCase : UpperCase[i] = c]]

LowerChar(c) == IF c \in DOMAIN LowerOf THEN LowerOf[c] ELSE c

\* str::to_lowercase
RECURSIVE ToLower(_)
ToLower(s) == IF s = <<>> THEN <<>> ELSE <<LowerChar(Head(s))>> \o ToLower(Tail(s))

\* char::is_whitespace on the characters the model uses
IsSpace(c) == c \in {" ", "\t", "\n", "\r"}

\* the substring of s that starts at position i (1-based) and runs to the end
From(s, i) == SubSeq(s, i, Len(s))

\* str::starts_with / str::ends_with
StartsWith(s, p) == Len(p) <= Len(s) /\ SubSeq(s, 1, Len(p)) = p

EndsWith(s, p) == Len(p) <= Len(s) /\ SubSeq(s, Len(s) - Len(p) + 1, Len(s)) = p

\* str::find: the 1-based position of the first occurrence of p in s, 0 if none
RECURSIVE FindFrom(_, _, _)
FindFrom(s, p, i) ==
    IF i + Len(p) - 1 > Len(s) THEN 0
    ELSE IF SubSeq(s, i, i + Len(p) - 1) = p THEN i
    ELSE FindFrom(s, p, i + 1)

Find(s, p) == FindFrom(s, p, 1)

\* str::contains
Contains(s, p) == Find(s, p) # 0

\* str::trim_start / trim_end / trim
RECURSIVE TrimStart(_)
TrimStart(s) == IF s # <<>> /\ IsSpace(s[1]) THEN TrimStart(Tail(s)) ELSE s

RECURSIVE TrimEnd(_)
TrimEnd(s) ==
    IF s # <<>> /\ IsSpace(s[Len(s)]) THEN TrimEnd(SubSeq(s, 1, Len(s) - 1)) ELSE s

Trim(s) == TrimEnd(TrimStart(s))

\* str::parse::<u32 / u64 / usize>: an optional "+", then one or more ASCII
\* digits; -1 stands for Err.  The model's numbers stay far below 2^32.
RECURSIVE DigitsValue(_)
DigitsValue(s) ==
    IF s = <<>> THEN 0
    ELSE DigitsValue(SubSeq(s, 1, Len(s) - 1)) * 10 + DigitVal(s[Len(s)])

ParseUInt(s) ==
    LET body == IF s # <<>> /\ s[1] = "+" THEN Tail(s) ELSE s
    IN  IF body # <<>> /\ \A i \in DOMAIN body : IsDigit(body[i])
        THEN DigitsValue(body)
        ELSE -1

\* concatenation of a sequence of strings
RECURSIVE Concat(_)
Concat(parts) == IF parts = <<>> THEN <<>> ELSE Head(parts) \o Concat(Tail(parts))

(***************************************************************************)
(* Episode identifier (discovery/episode.rs).                              *)
(***************************************************************************)
\* A regex of EPISODE_PATTERNS as a sequence of elements: "set" is one
\* character of a set, "digits" a captured group of lo..hi digits, "ws" is \s*.
OneOf(cs) == [t |-> "set", cs |-> cs, lo |-> 1, hi |-> 1]

DigitGroup(lo, hi) == [t |-> "digits", cs |-> {}, lo |-> lo, hi |-> hi]

WhiteSpaces == [t |-> "ws", cs |-> {}, lo |-> 0, hi |-> 0]

CaseInsensitive(word) == [i \in DOMAIN word |-> OneOf({word[i], LowerChar(word[i])})]

\* episode.rs lines 18-27, in the order of the vec!
EPISODE_PATTERNS ==
    << \* (?i)[Ss](\d{1,2})[Ee](\d{1,3})
       <<OneOf({"S", "s"}), DigitGroup(1, 2), OneOf({"E", "e"}), DigitGroup(1, 3)>>,
       \* (\d{1,2})x(\d{1,3})
       <<DigitGroup(1, 2), OneOf({"x"}), DigitGroup(1, 3)>>,
       \* (?i)Season\s*(\d{1,2})\s*Episode\s*(\d{1,3})
       CaseInsensitive(<<"S","E","A","S","O","N">>) \o <<WhiteSpaces, DigitGroup(1, 2), WhiteSpaces>>
         \o CaseInsensitive(<<"E","P","I","S","O","D","E">>) \o <<WhiteSpaces, DigitGroup(1, 3)>>,
       \* \[(\d{1,2})x(\d{1,3})\]
       <<OneOf({"["}), DigitGroup(1, 2), OneOf({"x"}), DigitGroup(1, 3), OneOf({"]"})>> >>

\* the patterns in another order: what a reordering of the vec! would give
EPISODE_PATTERNS_Reordered ==
    <<EPISODE_PATTERNS[2], EPISODE_PATTERNS[1], EPISODE_PATTERNS[3], EPISODE_PATTERNS[4]>>

\* how many characters from position i on satisfy the element's class, up to max
RECURSIVE RunLength(_, _, _, _)
RunLength(s, i, max, digit) ==
    IF max = 0 \/ i > Len(s) THEN 0
    ELSE IF (IF digit THEN IsDigit(s[i]) ELSE IsSpace(s[i]))
         THEN 1 + RunLength(s, i + 1, max - 1, digit)
         ELSE 0

NoMatch == [ok |-> FALSE, caps |-> <<>>]

\* Regex matching anchored at position i, by backtracking: a repetition takes
\* as many characters as it can and gives them back one at a time while the
\* rest of the pattern fails (the regex crate's leftmost-first semantics).
RECURSIVE MatchFrom(_, _, _, _, _)
RECURSIVE MatchRepeat(_, _, _, _, _, _)
MatchFrom(pat, k, s, i, caps) ==
    IF k > Len(pat) THEN [ok |-> TRUE, caps |-> caps]
    ELSE LET el == pat[k]
         IN  IF el.t = "set"
             THEN IF i <= Len(s) /\ s[i] \in el.cs
                  THEN MatchFrom(pat, k + 1, s, i + 1, caps)
                  ELSE NoMatch
             ELSE IF el.t = "digits"
             THEN MatchRepeat(pat, k, s, i, caps, RunLength(s, i, el.hi, TRUE))
             ELSE MatchRepeat(pat, k, s, i, caps, RunLength(s, i, Len(s), FALSE))

MatchRepeat(pat, k, s, i, caps, n) ==
    IF n < pat[k].lo THEN NoMatch
    ELSE LET taken == IF pat[k].t = "digits"
                      THEN Append(caps, SubSeq(s, i, i + n - 1))
                      ELSE caps
             rest == MatchFrom(pat, k + 1, s, i + n, taken)
         IN  IF rest.ok THEN rest ELSE MatchRepeat(pat, k, s, i, caps, n - 1)

\* Regex::captures: the match at the leftmost position that has one
Captures(pat, s) ==
    LET starts == {i \in 1..Len(s) : MatchFrom(pat, 1, s, i, <<>>).ok}
    IN  IF starts = {} THEN NoMatch
        ELSE MatchFrom(pat, 1, s, CHOOSE i \in starts : \A j \in starts : i <= j, <<>>)

\* from_filename lines 47-54: captures.get(n).and_then(parse().ok()).unwrap_or(0)
CaptureNumber(m, n) ==
    IF n <= Len(m.caps) /\ ParseUInt(m.caps[n]) >= 0 THEN ParseUInt(m.caps[n]) ELSE 0

InvalidEpisodeFormat == [ok |-> FALSE, season |-> 0, episode |-> 0]

\* from_filename lines 45-62: the loop over the patterns from the k-th on
RECURSIVE FromPatterns(_, _, _)
FromPatterns(pats, k, filename) ==
    IF k > Len(pats) THEN InvalidEpisodeFormat
    ELSE LET m == Captures(pats[k], filename)
             season == CaptureNumber(m, 1)
             episode == CaptureNumber(m, 2)
         IN  IF m.ok /\ season > 0 /\ episode > 0
             THEN [ok |-> TRUE, season |-> season, episode |-> episode]
             ELSE FromPatterns(pats, k + 1, filename)

\* EpisodeId::from_filename
from_filename_Reordered(filename) == FromPatterns(EPISODE_PATTERNS_Reordered, 1, filename)
from_filename(filename) == FromPatterns(EPISODE_PATTERNS, 1, filename)

\* Pieces of file names; a file name is a concatenation of a few of them.
NameFragments ==
    << <<"S","0","1","E","0","5">>,
       <<"s","2","e","1","5">>,
       <<"S","0","0","E","0","1">>,
       <<"1","x","0","5">>,
       <<"0","x","3">>,
       <<"1","X","0","5">>,
       <<"S","e","a","s","o","n"," ","1"," ","E","p","i","s","o","d","e"," ","0","5">>,
       <<"[","0","2","x","0","3","]">>,
       <<"m","o","v","i","e",".","m","k","v">>,
       <<"S","1">>,
       <<"E","2">>,
       <<"1","2">>,
       <<"x","3">> >>

FileNames ==
    { Concat([i \in DOMAIN ps |-> NameFragments[ps[i]]]) :
        ps \in SeqsUpTo(DOMAIN NameFragments, MaxNameParts) }

NotParsed == [ok |-> FALSE, season |-> -1, episode |-> -1]

EpisodeInit ==
    /\ name_arg \in FileNames
    /\ parsed = NotParsed

\* a call of EpisodeId::from_filename
ParseFilename ==
    /\ parsed = NotParsed
    /\ parsed' = from_filename(name_arg)
    /\ UNCHANGED name_arg
    /\ UNCHANGED notEpisode

EpisodeNext == ParseFilename

\* EpisodeId::new, lines 39-41
EpisodeId_new(season, episode) == [ok |-> TRUE, season |-> season, episode |-> episode]

\* Arguments of EpisodeId::new: u32 values, zero among them.
IdNumbers == {0, 1, 12, 99}

NewIdInit ==
    /\ new_season \in IdNumbers
    /\ new_episode \in IdNumbers
    /\ made = NotParsed

\* a call of EpisodeId::new
NewId ==
    /\ made = NotParsed
    /\ made' = EpisodeId_new(new_season, new_episode)
    /\ UNCHANGED <<new_season, new_episode>>
    /\ UNCHANGED notNewId

\* either constructor of the public interface is called
PublicIdInit ==
    \/ EpisodeInit /\ new_season = 0 /\ new_episode = 0
                   /\ made = [ok |-> FALSE, season |-> -2, episode |-> -2]
    \/ NewIdInit /\ name_arg = <<>> /\ parsed = [ok |-> FALSE, season |-> -2, episode |-> -2]

PublicIdNext ==
    \/ ParseFilename
    \/ NewId

(***************************************************************************)
(* Claims about the episode identifier.                                    *)
(***************************************************************************)
\* What the four forms are, stated on positions: a structural match of a form
\* is <<i, a, ls, b, le>>: it starts at i, the season is the ls digits from a,
\* the episode the le digits from b.
AllDigits(s, a, n) == n >= 1 /\ a + n - 1 <= Len(s) /\ \A j \in a..(a + n - 1) : IsDigit(s[j])

CharIs(s, i, cs) == i \in 1..Len(s) /\ s[i] \in cs

SpaceRun(s, a) ==
    CHOOSE n \in 0..Len(s) :
        /\ \A j \in a..(a + n - 1) : CharIs(s, j, {" ", "\t", "\n", "\r"})
        /\ ~CharIs(s, a + n, {" ", "\t", "\n", "\r"})

WordAt(s, i, word) ==
    i + Len(word) - 1 <= Len(s) /\ \A j \in DOMAIN word : LowerChar(s[i + j - 1]) = word[j]

SeasonStart(k, s, i) ==
    CASE k = 1 -> i + 1
      [] k = 2 -> i
      [] k = 3 -> i + 6 + SpaceRun(s, i + 6)
      [] k = 4 -> i + 1

EpisodeStart(k, s, i, ls) ==
    LET e == SeasonStart(k, s, i) + ls
        w == e + SpaceRun(s, e)
    IN  IF k = 3 THEN w + 7 + SpaceRun(s, w + 7) ELSE e + 1

\* the text at i has form k with a season of ls digits and an episode of le
Structural(k, s, i, ls, le) ==
    LET a == SeasonStart(k, s, i)
        b == EpisodeStart(k, s, i, ls)
    IN  /\ AllDigits(s, a, ls)
        /\ AllDigits(s, b, le)
        /\ CASE k = 1 -> CharIs(s, i, {"S", "s"}) /\ CharIs(s, a + ls, {"E", "e"})
             [] k = 2 -> CharIs(s, a + ls, {"x"})
             [] k = 3 -> /\ WordAt(s, i, <<"s","e","a","s","o","n">>)
                         /\ WordAt(s, a + ls + SpaceRun(s, a + ls), <<"e","p","i","s","o","d","e">>)
             [] k = 4 -> /\ CharIs(s, i, {"["}) /\ CharIs(s, a + ls, {"x"})
                         /\ CharIs(s, b + le, {"]"})

FormMatches(k, s) ==
    {m \in (1..Len(s)) \X (1..2) \X (1..3) : Structural(k, s, m[1], m[2], m[3])}

Decimal(s, a, n) ==
    LET RECURSIVE Val(_)
        Val(j) == IF j = 0 THEN 0 ELSE Val(j - 1) * 10 + DigitVal(s[a + j - 1])
    IN  Val(n)

\* the match a regex search reports (leftmost, then the longest season, then
\* the longest episode) and the numbers it carries
FormResult(k, s) ==
    LET M == FormMatches(k, s)
        m == CHOOSE x \in M : \A y \in M :
                \/ x[1] < y[1]
                \/ x[1] = y[1] /\ x[2] > y[2]
                \/ x[1] = y[1] /\ x[2] = y[2] /\ x[3] >= y[3]
    IN  IF M = {} THEN [found |-> FALSE, season |-> 0, episode |-> 0]
        ELSE [found   |-> TRUE,
              season  |-> Decimal(s, SeasonStart(k, s, m[1]), m[2]),
              episode |-> Decimal(s, EpisodeStart(k, s, m[1], m[2]), m[3])]

FormValid(r) == r.found /\ r.season > 0 /\ r.episode > 0

\* C5: from_filename returns the id of the first of the forms SxEy, axb,
\* "Season a Episode b", [axb] whose match has season > 0 and episode > 0 (a
\* match with a zero does not count and the next form is tried), and fails with
\* InvalidEpisodeFormat when no form has one.
C5_FirstValidPattern ==
    parsed # NotParsed =>
        LET forms == [k \in 1..4 |-> FormResult(k, name_arg)]
            valid == {k \in 1..4 : FormValid(forms[k])}
        IN  IF valid = {}
            THEN parsed = InvalidEpisodeFormat
            ELSE LET k == CHOOSE x \in valid : \A y \in valid : x <= y
                 IN  parsed = [ok |-> TRUE, season |-> forms[k].season,
                                            episode |-> forms[k].episode]

\* C5 witness: "0x3[02x03]": the axb form matches "0x3" with season 0, which does
\* not count, and the bracketed form gives S02E03.
C5_Witness ==
    /\ name_arg = <<"0","x","3","[","0","2","x","0","3","]">>
    /\ FormResult(2, name_arg).found /\ ~FormValid(FormResult(2, name_arg))
    /\ parsed = [ok |-> TRUE, season |-> 2, episode |-> 3]

\* C20: every EpisodeId obtained through EpisodeId::from_filename or
\* EpisodeId::new has season > 0 and episode > 0.
C20_PublicIdsArePositive ==
    /\ parsed.ok => parsed.season > 0 /\ parsed.episode > 0
    /\ made.ok => made.season > 0 /\ made.episode > 0

\* the part of C20 the code keeps: from_filename returns positive numbers only
C20_ParsedIdsArePositive == parsed.ok => parsed.season > 0 /\ parsed.episode > 0

\* EpisodeId::new(0, 12) has returned the id with season 0
C20_NewWithZeroSeason == made = [ok |-> TRUE, season |-> 0, episode |-> 12]

(***************************************************************************)
(* External subtitle selection (discovery/scanner.rs).                     *)
(* A path is [dir |-> the name of its parent directory, name |-> its file  *)
(* name].                                                                  *)
(***************************************************************************)
\* scanner.rs lines 19-33
ENGLISH_PATTERNS ==
    << <<".","e","n",".">>,
       <<".","e","n","g",".">>,
       <<".","e","n","g","l","i","s","h",".">>,
       <<"_","e","n",".">>,
       <<"_","e","n","g",".">>,
       <<"_","e","n","g","l","i","s","h",".">>,
       <<"-","e","n",".">>,
       <<"-","e","n","g",".">>,
       <<"-","e","n","g","l","i","s","h",".">>,
       <<".","e","n","-","u","s",".">>,
       <<".","e","n","-","g","b",".">>,
       <<".","e","n","_","u","s",".">>,
       <<".","e","n","_","g","b",".">> >>

\* scanner.rs lines 36-65
NON_ENGLISH_PATTERNS ==
    << <<".","e","s",".">>,
       <<".","s","p","a",".">>,
       <<".","s","p","a","n","i","s","h",".">>,
       <<".","f","r",".">>,
       <<".","f","r","a",".">>,
       <<".","f","r","e","n","c","h",".">>,
       <<".","d","e",".">>,
       <<".","d","e","u",".">>,
       <<".","g","e","r",".">>,
       <<".","g","e","r","m","a","n",".">>,
       <<".","i","t",".">>,
       <<".","i","t","a",".">>,
       <<".","i","t","a","l","i","a","n",".">>,
       <<".","p","t",".">>,
       <<".","p","o","r",".">>,
       <<".","p","o","r","t","u","g","u","e","s","e",".">>,
       <<".","r","u",".">>,
       <<".","r","u","s",".">>,
       <<".","r","u","s","s","i","a","n",".">>,
       <<".","j","a",".">>,
       <<".","j","p","n",".">>,
       <<".","j","a","p","a","n","e","s","e",".">>,
       <<".","k","o",".">>,
       <<".","k","o","r",".">>,
       <<".","k","o","r","e","a","n",".">>,
       <<".","z","h",".">>,
       <<".","c","h","i",".">>,
       <<".","c","h","i","n","e","s","e",".">> >>

\* scanner.rs lines 341-352
SDH_MARKERS ==
    << <<".","s","d","h",".">>,
       <<"_","s","d","h",".">>,
       <<"-","s","d","h",".">>,
       <<".","c","c",".">>,
       <<"_","c","c",".">>,
       <<"-","c","c",".">>,
       <<".","h","i",".">>,
       <<"_","h","i",".">>,
       <<"-","h","i",".">>,
       <<"[","s","d","h","]">>,
       <<"[","c","c","]">>,
       <<"[","h","i","]">> >>

\* for pattern in PATTERNS { if filename.contains(pattern) { ...; break; } }:
\* whether the loop reaches a pattern that the file name contains
RECURSIVE AnyPatternIn(_, _, _)
AnyPatternIn(patterns, k, filename) ==
    IF k > Len(patterns) THEN FALSE
    ELSE IF Contains(filename, patterns[k]) THEN TRUE
    ELSE AnyPatternIn(patterns, k + 1, filename)

\* Scanner::score_external_subtitle
score_external_subtitle(path) ==
    LET filename == ToLower(path.name)
        parent_name == ToLower(path.dir)
    IN  (IF AnyPatternIn(ENGLISH_PATTERNS, 1, filename) THEN 1000 ELSE 0)
        + (IF parent_name \in {<<"e","n","g","l","i","s","h">>,
                            <<"e","n","g">>, <<"e","n">>} THEN 500 ELSE 0)
        - (IF AnyPatternIn(NON_ENGLISH_PATTERNS, 1, filename) THEN 500 ELSE 0)
        - (IF AnyPatternIn(SDH_MARKERS, 1, filename) THEN 100 ELSE 0)
        + (IF EndsWith(filename, <<".","s","r","t">>) THEN 10 ELSE 0)

\* slice::sort_by(|a, b| b.0.cmp(&a.0)): a stable sort, highest score first;
\* an element goes behind every element that does not score lower
RECURSIVE InsertByScore(_, _)
InsertByScore(sorted, x) ==
    IF sorted = <<>> THEN <<x>>
    ELSE IF Head(sorted)[1] >= x[1] THEN <<Head(sorted)>> \o InsertByScore(Tail(sorted), x)
    ELSE <<x>> \o sorted

RECURSIVE SortByScoreDesc(_)
SortByScoreDesc(scored) ==
    IF scored = <<>> THEN <<>>
    ELSE InsertByScore(SortByScoreDesc(SubSeq(scored, 1, Len(scored) - 1)),
                       scored[Len(scored)])

NoPath == [some |-> FALSE, path |-> [dir |-> <<>>, name |-> <<>>]]

SomePath(p) == [some |-> TRUE, path |-> p]

\* Scanner::select_best_external_subtitle
select_best_external_subtitle_LastMax(paths) ==
    IF paths = <<>> THEN NoPath
    ELSE SomePath(paths[CHOOSE i \in DOMAIN paths : \A j \in DOMAIN paths :
            \/ score_external_subtitle(paths[j]) < score_external_subtitle(paths[i])
            \/ score_external_subtitle(paths[j]) = score_external_subtitle(paths[i]) /\ j <= i])
select_best_external_subtitle(paths) ==
    IF paths = <<>> THEN NoPath
    ELSE IF Len(paths) = 1 THEN SomePath(paths[1])
    ELSE LET scored == [i \in DOMAIN paths |-> <<score_external_subtitle(paths[i]), paths[i]>>]
         IN  SomePath(SortByScoreDesc(scored)[1][2])

\* Subtitle files of one episode, as the walk may have collected them.
CandidatePool ==
    << [dir |-> <<>>, name |-> <<"S","0","1","E","0","1",".","e","s",".","s","r","t">>],
       [dir |-> <<>>, name |-> <<"S","0","1","E","0","1",".","e","n",".","s","r","t">>],
       [dir |-> <<>>, name |-> <<"S","0","1","E","0","1",".","e","n",".","s","d","h",".","s","r","t">>],
       [dir |-> <<>>, name |-> <<"S","0","1","E","0","1",".","s","r","t">>],
       [dir |-> <<"s","u","b","s">>, name |-> <<"S","0","1","E","0","1","_","E","N","G",".","a","s","s">>],
       [dir |-> <<>>, name |-> <<"S","0","1","E","0","1",".","e","n",".","e","n","g",".","s","r","t">>],
       [dir |-> <<"E","N","G">>, name |-> <<"S","0","1","E","0","1",".","f","r",".","[","C","C","]",".","v","t","t">>],
       [dir |-> <<"e","n">>, name |-> <<"S","0","1","E","0","1","-","e","n","g","l","i","s","h",".","h","i",".","s","r","t">>] >>

NotSelected == [some |-> FALSE, path |-> [dir |-> <<>>, name |-> <<"?">>]]

ScoreInit ==
    /\ cands \in SeqsUpTo(Range(CandidatePool), MaxCandidates)
    /\ best = NotSelected

\* a call of Scanner::select_best_external_subtitle
SelectBest ==
    /\ best = NotSelected
    /\ best' = select_best_external_subtitle(cands)
    /\ UNCHANGED cands
    /\ UNCHANGED notScore

ScoreNext == SelectBest

\* Subtitle files of one episode, some of them below a directory named after
\* hearing-impaired content.
SdhDirPool ==
    << [dir |-> <<>>, name |-> <<"S","0","1","E","0","1",".","e","n",".","s","r","t">>],
       [dir |-> <<"S","D","H">>, name |-> <<"S","0","1","E","0","1",".","e","n",".","s","r","t">>],
       [dir |-> <<>>, name |-> <<"S","0","1","E","0","1",".","e","n",".","s","d","h",".","s","r","t">>],
       [dir |-> <<"c","c">>, name |-> <<"S","0","1","E","0","1",".","a","s","s">>],
       [dir |-> <<"s","u","b","s">>, name |-> <<"S","0","1","E","0","1",".","a","s","s">>] >>

SdhDirInit ==
    /\ cands \in SeqsUpTo(Range(SdhDirPool), MaxCandidates)
    /\ best = NotSelected

(***************************************************************************)
(* Claims about external subtitle selection.                               *)
(***************************************************************************)
HasMarker(name, markers) ==
    \E k \in DOMAIN markers : \E i \in 1..Len(name) :
        /\ i + Len(markers[k]) - 1 <= Len(name)
        /\ \A j \in DOMAIN markers[k] : LowerChar(name[i + j - 1]) = markers[k][j]

HasSrtExtension(name) ==
    Len(name) >= 4 /\ [j \in 1..4 |-> LowerChar(name[Len(name) - 4 + j])] = <<".","s","r","t">>

EnglishDir(dir) == [j \in DOMAIN dir |-> LowerChar(dir[j])] \in {<<"e","n","g","l","i","s","h">>,
                            <<"e","n","g">>, <<"e","n">>}

\* the score as the claim states it
ClaimedScore(p) ==
    (IF HasMarker(p.name, ENGLISH_PATTERNS) THEN 1000 ELSE 0)
    + (IF EnglishDir(p.dir) THEN 500 ELSE 0)
    + (IF HasMarker(p.name, NON_ENGLISH_PATTERNS) THEN -500 ELSE 0)
    + (IF HasMarker(p.name, SDH_MARKERS) THEN -100 ELSE 0)
    + (IF HasSrtExtension(p.name) THEN 10 ELSE 0)

EnglishPlain(p) ==
    /\ HasMarker(p.name, ENGLISH_PATTERNS)
    /\ ~HasMarker(p.name, NON_ENGLISH_PATTERNS)
    /\ ~HasMarker(p.name, SDH_MARKERS)

EnglishSdh(p) ==
    /\ HasMarker(p.name, ENGLISH_PATTERNS)
    /\ ~HasMarker(p.name, NON_ENGLISH_PATTERNS)
    /\ HasMarker(p.name, SDH_MARKERS)

NonEnglishOnly(p) ==
    /\ ~HasMarker(p.name, ENGLISH_PATTERNS)
    /\ HasMarker(p.name, NON_ENGLISH_PATTERNS)
    /\ ~HasMarker(p.name, SDH_MARKERS)

SameDirAndFormat(p, q) ==
    p.dir = q.dir /\ (HasSrtExtension(p.name) <=> HasSrtExtension(q.name))

\* the claimed score and the model's score of every candidate of the pool
ClaimedScores == [p \in Range(CandidatePool) |-> ClaimedScore(p)]

Scores == [p \in Range(CandidatePool) |-> score_external_subtitle(p)]

Standing ==
    [p \in Range(CandidatePool) |->
        IF EnglishPlain(p) THEN "english_plain"
        ELSE IF EnglishSdh(p) THEN "english_sdh"
        ELSE IF NonEnglishOnly(p) THEN "non_english_only"
        ELSE "other"]

\* what select_best_external_subtitle returned is None for an empty list, the
\* sole candidate of a one-element list and otherwise the first candidate of
\* maximal claimed score, and every candidate's score is the claimed one
SelectedAsClaimed ==
    /\ \A i \in DOMAIN cands : Scores[cands[i]] = ClaimedScores[cands[i]]
    /\ cands = <<>> => best = NoPath
    /\ Len(cands) = 1 => best = SomePath(cands[1])
    /\ Len(cands) >= 2 =>
          \E i \in DOMAIN cands :
              /\ best = SomePath(cands[i])
              /\ \A j \in DOMAIN cands : ClaimedScores[cands[j]] <= ClaimedScores[cands[i]]
              /\ \A j \in 1..(i - 1) : ClaimedScores[cands[j]] < ClaimedScores[cands[i]]

SdhDir(dir) ==
    [j \in DOMAIN dir |-> LowerChar(dir[j])] \in {<<"s","d","h">>, <<"c","c">>, <<"h","i">>}

\* two candidates that differ only in that the second lies in an SDH directory
OnlySdhDirApart(p, q) ==
    /\ p.name = q.name
    /\ ~SdhDir(p.dir) /\ SdhDir(q.dir)
    /\ EnglishDir(p.dir) <=> EnglishDir(q.dir)

\* the model's score of every candidate of the SDH directory pool
SdhDirScores == [p \in Range(SdhDirPool) |-> score_external_subtitle(p)]

\* C21: score_external_subtitle subtracts 100 when the file name or the
\* name of the immediate parent directory indicates hearing-impaired/SDH/CC
\* content, so of two otherwise identical candidates the one inside an
\* SDH-named directory scores strictly lower.
C21_SdhNameOrParentCosts100 ==
    best # NotSelected =>
        \A i, j \in DOMAIN cands :
            OnlySdhDirApart(cands[i], cands[j])
            => SdhDirScores[cands[j]] < SdhDirScores[cands[i]]

\* the file-name half of C21: of two candidates of one directory whose names
\* differ only in an SDH marker, the marked one scores exactly 100 lower
C21_SdhFileNameCosts100 ==
    best # NotSelected =>
        \A i, j \in DOMAIN cands :
            (/\ SameDirAndFormat(cands[i], cands[j])
             /\ HasMarker(cands[i].name, ENGLISH_PATTERNS) <=> HasMarker(cands[j].name, ENGLISH_PATTERNS)
             /\ HasMarker(cands[i].name, NON_ENGLISH_PATTERNS) <=> HasMarker(cands[j].name, NON_ENGLISH_PATTERNS)
             /\ ~HasMarker(cands[i].name, SDH_MARKERS) /\ HasMarker(cands[j].name, SDH_MARKERS))
            => SdhDirScores[cands[j]] = SdhDirScores[cands[i]] - 100

\* S01E01.en.srt and SDH/S01E01.en.srt are both scored 1010, and the first in
\* the list is chosen: here the one of the SDH directory
C21_SdhDirectoryIgnored ==
    /\ cands = <<SdhDirPool[2], SdhDirPool[1]>>
    /\ SdhDirScores[SdhDirPool[2]] = 1010 /\ SdhDirScores[SdhDirPool[1]] = 1010
    /\ best = SomePath(SdhDirPool[2])

(***************************************************************************)
(* Directory scan (discovery/scanner.rs, Scanner::scan).                   *)
(* A directory entry is [dir, name, is_file]; its path is [dir, name].     *)
(***************************************************************************)
\* scanner.rs line 13
VIDEO_EXTENSIONS == <<<<"m","p","4">>, <<"m","k","v">>, <<"a","v","i">>, <<"m","o","v">>, <<"w","m","v">>, <<"w","e","b","m">>, <<"m","4","v">>>>

\* scanner.rs line 16
SUBTITLE_EXTENSIONS == <<<<"s","r","t">>, <<"a","s","s">>, <<"s","s","a">>, <<"v","t","t">>>>

RECURSIVE LastDot(_, _)
LastDot(name, i) == IF i = 0 THEN 0 ELSE IF name[i] = "." THEN i ELSE LastDot(name, i - 1)

\* Path::extension: what follows the last dot, unless the name has no dot or
\* nothing before it (None, which unwrap_or_default turns into "")
Extension(name) ==
    LET k == LastDot(name, Len(name))
    IN  IF k <= 1 THEN <<>> ELSE From(name, k + 1)

\* Path::file_stem
FileStem(name) ==
    LET k == LastDot(name, Len(name))
    IN  IF k <= 1 THEN name ELSE SubSeq(name, 1, k - 1)

RECURSIVE ToDecimal(_)
ToDecimal(n) ==
    IF n < 10 THEN <<Digits[n + 1]>> ELSE ToDecimal(n \div 10) \o <<Digits[(n % 10) + 1]>>

\* format {:02}
Pad2(n) == IF n < 10 THEN <<"0">> \o ToDecimal(n) ELSE ToDecimal(n)

\* impl Display for EpisodeId (episode.rs lines 71-75)
to_string(id) == <<"S">> \o Pad2(id.season) \o <<"E">> \o Pad2(id.episode)

\* str::eq_ignore_ascii_case
eq_ignore_ascii_case(a, b) == ToLower(a) = ToLower(b)

\* derived Ord of EpisodeId: season first, then episode
IdLess(a, b) == a.season < b.season \/ (a.season = b.season /\ a.episode < b.episode)

PathOf(f) == [dir |-> f.dir, name |-> f.name]

NoFilter == [some |-> FALSE, list |-> <<>>]

SomeFilter(l) == [some |-> TRUE, list |-> l]

\* scan lines 185-197: the two filters
PassesFilters(id, by_season, by_episode) ==
    /\ by_season.some => \E i \in DOMAIN by_season.list : by_season.list[i] = id.season
    /\ by_episode.some =>
          \E i \in DOMAIN by_episode.list :
              eq_ignore_ascii_case(by_episode.list[i], to_string(id))

\* HashMap::entry(k).or_insert_with(v): the first value of a key stays
OrInsert_Replace(map, k, v) ==
    [x \in DOMAIN map \cup {k} |-> IF x = k THEN v ELSE map[x]]
OrInsert(map, k, v) ==
    IF k \in DOMAIN map THEN map
    ELSE [x \in DOMAIN map \cup {k} |-> IF x = k THEN v ELSE map[x]]

\* HashMap::entry(k).or_default().push(v)
PushTo(map, k, v) ==
    [x \in DOMAIN map \cup {k} |->
        IF x = k THEN (IF k \in DOMAIN map THEN Append(map[k], v) ELSE <<v>>) ELSE map[x]]

EmptyMap == [x \in {} |-> <<>>]

\* scan lines 224-225: the external subtitle of an episode, if it has one
ResolveExternal_Never(subs, id) == NoPath
ResolveExternal(subs, id) ==
    IF id \in DOMAIN subs THEN select_best_external_subtitle(subs[id]) ELSE NoPath

\* what SubtitleExtractor::extract_best_subtitle may come back with
ExtractOutcomes == {"extracted", "no_stream", "error"}

CacheDirName == <<"s","u","b","t","i","t","l","e","s">>

\* extract_best_subtitle lines 293-299: <cache dir>/<video stem>.<ext>
ExtractedPath(video) == [dir |-> CacheDirName, name |-> FileStem(video.name) \o <<".","s","r","t">>]

EmptyPath == [dir |-> <<>>, name |-> <<>>]

ExternalEpisode(id, video, sub) ==
    [id |-> id, video_path |-> video, subtitle_path |-> sub,
     subtitle_source |-> [kind |-> "External", path |-> sub, video_path |-> EmptyPath]]

EmbeddedEpisode(id, video, extracted) ==
    [id |-> id, video_path |-> video, subtitle_path |-> extracted,
     subtitle_source |-> [kind |-> "Embedded", path |-> extracted, video_path |-> video]]

\* episodes.sort_by(|a, b| a.id.cmp(&b.id)), a stable sort
RECURSIVE InsertById(_, _)
InsertById(sorted, e) ==
    IF sorted = <<>> THEN <<e>>
    ELSE IF IdLess(e.id, Head(sorted).id) THEN <<e>> \o sorted
    ELSE <<Head(sorted)>> \o InsertById(Tail(sorted), e)

RECURSIVE SortById(_)
SortById_Unsorted(eps) == eps
SortById(eps) ==
    IF eps = <<>> THEN <<>>
    ELSE InsertById(SortById(SubSeq(eps, 1, Len(eps) - 1)), eps[Len(eps)])

\* scan lines 269-275
ScanResult_NoCheck(eps) == [kind |-> "Ok", list |-> eps]
ScanResult(eps) ==
    IF eps = <<>> THEN [kind |-> "NoVideosFound", list |-> <<>>]
    ELSE [kind |-> "Ok", list |-> eps]

NoScanResult == [kind |-> "None", list |-> <<>>]

\* The directory entries a tree is made of, in the order WalkDir yields them.
FilePool ==
    << [dir |-> <<"s","h","o","w">>, name |-> <<"S","0","1","E","0","1",".","m","k","v">>,
        is_file |-> TRUE],
       [dir |-> <<"s","h","o","w">>, name |-> <<"s","0","1","e","0","1",".","a","v","i">>,
        is_file |-> TRUE],
       [dir |-> <<"s","h","o","w">>, name |-> <<"S","0","2","E","0","1",".","M","K","V">>,
        is_file |-> TRUE],
       [dir |-> <<"s","h","o","w">>, name |-> <<"S","0","1","E","0","1",".","e","n",".","s","r","t">>,
        is_file |-> TRUE],
       [dir |-> <<"s","u","b","s">>, name |-> <<"1","x","0","1",".","e","s",".","a","s","s">>,
        is_file |-> TRUE],
       [dir |-> <<"s","h","o","w">>, name |-> <<"S","0","2","E","0","1",".","s","r","t">>,
        is_file |-> TRUE],
       [dir |-> <<"s","h","o","w">>, name |-> <<"m","o","v","i","e",".","m","k","v">>,
        is_file |-> TRUE],
       [dir |-> <<"s","h","o","w">>, name |-> <<"S","0","1","E","0","3",".","m","k","v">>,
        is_file |-> FALSE] >>

Trees ==
    {t \in SeqsUpTo(Range(FilePool), MaxFiles) :
        \A i, j \in DOMAIN t : i # j => t[i] # t[j]}

\* with_seasons / with_episodes
ScanConfigs ==
    { [seasons |-> NoFilter, episodes |-> NoFilter],
      [seasons |-> SomeFilter(<<2>>), episodes |-> NoFilter],
      [seasons |-> NoFilter, episodes |-> SomeFilter(<<<<"s","0","1","e","0","1">>>>)] }

ScanInit ==
    /\ \E cfg \in ScanConfigs :
          seasons_filter = cfg.seasons /\ episodes_filter = cfg.episodes
    /\ \/ root_exists = TRUE /\ tree \in Trees
       \/ root_exists = FALSE /\ tree = <<>>
    /\ scan_pc = "start"
    /\ walk_idx = 0
    /\ video_files = EmptyMap
    /\ subtitle_files = EmptyMap
    /\ pending = {}
    /\ episodes = <<>>
    /\ probes = <<>>
    /\ scan_ret = NoScanResult

\* scan lines 148-153
ScanStart ==
    /\ scan_pc = "start"
    /\ IF ~root_exists
       THEN /\ scan_ret' = [kind |-> "Discovery", list |-> <<>>]
            /\ scan_pc' = "done"
            /\ UNCHANGED walk_idx
       ELSE /\ scan_pc' = "walk"
            /\ walk_idx' = 1
            /\ UNCHANGED scan_ret
    /\ UNCHANGED <<root_exists, tree, seasons_filter, episodes_filter, video_files,
                   subtitle_files, pending, episodes, probes>>
    /\ UNCHANGED notScan

\* scan lines 160-211: one turn of the loop over the directory entries
WalkEntry ==
    /\ scan_pc = "walk"
    /\ walk_idx <= Len(tree)
    /\ LET entry == tree[walk_idx]
           extension == ToLower(Extension(entry.name))
           episode_id == from_filename(entry.name)
           id == [season |-> episode_id.season, episode |-> episode_id.episode]
       IN  IF \/ ~entry.is_file
              \/ ~episode_id.ok
              \/ ~PassesFilters(id, seasons_filter, episodes_filter)
           THEN UNCHANGED <<video_files, subtitle_files>>
           ELSE IF extension \in Range(VIDEO_EXTENSIONS)
           THEN /\ video_files' = OrInsert(video_files, id, PathOf(entry))
                /\ UNCHANGED subtitle_files
           ELSE IF extension \in Range(SUBTITLE_EXTENSIONS)
           THEN /\ subtitle_files' = PushTo(subtitle_files, id, PathOf(entry))
                /\ UNCHANGED video_files
           ELSE UNCHANGED <<video_files, subtitle_files>>
    /\ walk_idx' = walk_idx + 1
    /\ UNCHANGED <<root_exists, tree, seasons_filter, episodes_filter, scan_pc, pending,
                   episodes, probes, scan_ret>>
    /\ UNCHANGED notScan

\* the walk is over; scan lines 214-222: the loop over video_files begins
WalkEnd ==
    /\ scan_pc = "walk"
    /\ walk_idx > Len(tree)
    /\ scan_pc' = "match"
    /\ pending' = DOMAIN video_files
    /\ UNCHANGED <<root_exists, tree, seasons_filter, episodes_filter, walk_idx, video_files,
                   subtitle_files, episodes, probes, scan_ret>>
    /\ UNCHANGED notScan

\* scan lines 222-266: one turn of the loop over video_files, which a HashMap
\* yields in no particular order
MatchEpisode ==
    /\ scan_pc = "match"
    /\ \E id \in pending :
          LET video_path == video_files[id]
              external == ResolveExternal(subtitle_files, id)
          IN  /\ pending' = pending \ {id}
              /\ IF external.some
                 THEN /\ episodes' = Append(episodes, ExternalEpisode(id, video_path, external.path))
                      /\ UNCHANGED probes
                 ELSE \E outcome \in ExtractOutcomes :
                      /\ probes' = Append(probes, [id |-> id, video |-> video_path,
                                                   outcome |-> outcome])
                      /\ episodes' =
                            IF outcome = "extracted"
                            THEN Append(episodes,
                                        EmbeddedEpisode(id, video_path, ExtractedPath(video_path)))
                            ELSE episodes
    /\ UNCHANGED <<root_exists, tree, seasons_filter, episodes_filter, scan_pc, walk_idx,
                   video_files, subtitle_files, scan_ret>>
    /\ UNCHANGED notScan

\* scan lines 268-275
ScanFinish ==
    /\ scan_pc = "match"
    /\ pending = {}
    /\ scan_ret' = ScanResult(SortById(episodes))
    /\ scan_pc' = "done"
    /\ UNCHANGED <<root_exists, tree, seasons_filter, episodes_filter, walk_idx, video_files,
                   subtitle_files, pending, episodes, probes>>
    /\ UNCHANGED notScan

ScanNext ==
    \/ ScanStart
    \/ WalkEntry
    \/ WalkEnd
    \/ MatchEpisode
    \/ ScanFinish

(***************************************************************************)
(* Claims about the directory scan, stated over the tree that was scanned. *)
(***************************************************************************)
\* the episode id and the kind of every entry of the pool
Classified ==
    [f \in Range(FilePool) |->
        [id |-> from_filename(f.name),
         kind |-> IF \E i \in DOMAIN VIDEO_EXTENSIONS :
                        EndsWith(ToLower(f.name), <<".">> \o VIDEO_EXTENSIONS[i])
                  THEN "video"
                  ELSE IF \E i \in DOMAIN SUBTITLE_EXTENSIONS :
                        EndsWith(ToLower(f.name), <<".">> \o SUBTITLE_EXTENSIONS[i])
                  THEN "subtitle"
                  ELSE "other"]]

IdAt(i) == [season |-> Classified[tree[i]].id.season, episode |-> Classified[tree[i]].id.episode]

\* the i-th entry of the tree is a file of the given kind that carries an
\* episode id the filters let through
Accepted(i, kind) ==
    /\ tree[i].is_file
    /\ Classified[tree[i]].kind = kind
    /\ Classified[tree[i]].id.ok
    /\ seasons_filter.some => IdAt(i).season \in Range(seasons_filter.list)
    /\ episodes_filter.some =>
          \E k \in DOMAIN episodes_filter.list :
              ToLower(episodes_filter.list[k]) = ToLower(to_string(IdAt(i)))

VideoIds == {IdAt(i) : i \in {j \in DOMAIN tree : Accepted(j, "video")}}

\* the external candidates of an episode
CandidatesOf(id) ==
    {PathOf(tree[i]) : i \in {j \in DOMAIN tree : Accepted(j, "subtitle") /\ IdAt(j) = id}}

VideosOf(id) ==
    {PathOf(tree[i]) : i \in {j \in DOMAIN tree : Accepted(j, "video") /\ IdAt(j) = id}}

ProbedIds == {probes[i].id : i \in DOMAIN probes}

ExtractedIds == {probes[i].id : i \in {j \in DOMAIN probes : probes[j].outcome = "extracted"}}

\* the episodes that end up with a video and a resolved subtitle
ResolvedIds == {id \in VideoIds : CandidatesOf(id) # {} \/ id \in ExtractedIds}

ReturnedIds == {scan_ret.list[i].id : i \in DOMAIN scan_ret.list}

\* an entry of the result is made of its own episode's files only
OwnEntry(e) ==
    /\ e.video_path \in VideosOf(e.id)
    /\ IF CandidatesOf(e.id) # {}
       THEN /\ e.subtitle_source.kind = "External"
            /\ e.subtitle_path \in CandidatesOf(e.id)
       ELSE /\ e.subtitle_source.kind = "Embedded"
            /\ e.subtitle_source.video_path = e.video_path
            /\ e.subtitle_path = ExtractedPath(e.video_path)
    /\ e.subtitle_source.path = e.subtitle_path

\* C3: scan fails with Discovery when the root does not exist and with
\* NoVideosFound when no episode has both a video and a resolved subtitle; an
\* episode whose resolution gives nothing or an error is left out, the scan
\* does not fail for it and the other entries are what they would be without
\* it; scan never returns Ok with an empty list.
C3_ScanErrorsAndDrops ==
    scan_pc = "done" =>
        /\ ~root_exists => scan_ret.kind = "Discovery"
        /\ (root_exists /\ ResolvedIds = {}) => scan_ret.kind = "NoVideosFound"
        /\ (root_exists /\ ResolvedIds # {}) =>
              /\ scan_ret.kind = "Ok"
              /\ ReturnedIds = ResolvedIds
              /\ \A i \in DOMAIN scan_ret.list : OwnEntry(scan_ret.list[i])
        /\ scan_ret.kind = "Ok" => scan_ret.list # <<>>
        /\ scan_ret.kind \in {"Ok", "NoVideosFound", "Discovery"}

\* C3 witness: one episode with an external subtitle and one whose embedded
\* extraction failed: the scan returns the first one alone.
C3_Witness ==
    /\ scan_pc = "done"
    /\ scan_ret.kind = "Ok"
    /\ Len(scan_ret.list) = 1
    /\ \E i \in DOMAIN probes :
          /\ probes[i].outcome = "error"
          /\ probes[i].id \in VideoIds
          /\ probes[i].id \notin ReturnedIds

\* C3 witness of the other case: a tree that holds subtitle files only.
C3_WitnessSubtitlesOnly ==
    /\ scan_pc = "done"
    /\ scan_ret.kind = "NoVideosFound"
    /\ tree # <<>>
    /\ \A i \in DOMAIN tree : Accepted(i, "subtitle")

\* C4: the list scan returns is strictly ascending by EpisodeId, season
\* first, then episode.
C4_StrictlyAscending ==
    (scan_pc = "done" /\ scan_ret.kind = "Ok") =>
        \A i, j \in DOMAIN scan_ret.list :
            i < j => IdLess(scan_ret.list[i].id, scan_ret.list[j].id)

\* C4 witness: the later episode was discovered first and matched first, and
\* the result has the earlier one in front.
C4_Witness ==
    /\ scan_pc = "done"
    /\ scan_ret.kind = "Ok"
    /\ Len(scan_ret.list) = 2
    /\ Len(episodes) = 2
    /\ IdLess(episodes[2].id, episodes[1].id)
    /\ IdAt(1) = episodes[1].id
    /\ scan_ret.list[1] = episodes[2]

\* C6: extract_best_subtitle is called only for episodes without an external
\* candidate, and an episode with a video and at least one external candidate
\* is returned as External with one of its candidates as subtitle_path.
C6_EmbeddedOnlyWithoutExternal ==
    /\ \A i \in DOMAIN probes :
          /\ CandidatesOf(probes[i].id) = {}
          /\ probes[i].video \in VideosOf(probes[i].id)
    /\ scan_pc = "done" =>
          \A id \in VideoIds :
              CandidatesOf(id) # {} =>
                  \E i \in DOMAIN scan_ret.list :
                      /\ scan_ret.list[i].id = id
                      /\ scan_ret.list[i].subtitle_source.kind = "External"
                      /\ scan_ret.list[i].subtitle_source.path = scan_ret.list[i].subtitle_path
                      /\ scan_ret.list[i].subtitle_path \in CandidatesOf(id)

\* C6 witness: one episode with an external candidate, returned as External
\* without a probe, next to one without candidates, which was probed.
C6_Witness ==
    /\ scan_pc = "done"
    /\ scan_ret.kind = "Ok"
    /\ \E id \in VideoIds : CandidatesOf(id) # {} /\ id \notin ProbedIds /\ id \in ReturnedIds
    /\ \E id \in VideoIds : CandidatesOf(id) = {} /\ id \in ProbedIds

\* the first entry of the walked part of the tree that is an accepted video
\* of the episode (0 if there is none)
FirstVideoAt(id, upto) ==
    LET at == {i \in 1..upto : Accepted(i, "video") /\ IdAt(i) = id}
    IN  IF at = {} THEN 0 ELSE CHOOSE i \in at : \A j \in at : i <= j

\* how far the walk has got
Walked == IF scan_pc = "start" THEN 0
          ELSE IF scan_pc = "walk" THEN walk_idx - 1 ELSE Len(tree)

\* C25: for each EpisodeId the video_path of the returned Episode is the first
\* video file with that id encountered during the traversal among the files
\* that pass the season and episode filters; a video with the same id
\* encountered later never replaces it.
C25_FirstVideoWins ==
    /\ \A id \in DOMAIN video_files :
          /\ FirstVideoAt(id, Walked) # 0
          /\ video_files[id] = PathOf(tree[FirstVideoAt(id, Walked)])
    /\ (scan_pc = "done" /\ scan_ret.kind = "Ok") =>
          \A i \in DOMAIN scan_ret.list :
              /\ FirstVideoAt(scan_ret.list[i].id, Len(tree)) # 0
              /\ scan_ret.list[i].video_path =
                    PathOf(tree[FirstVideoAt(scan_ret.list[i].id, Len(tree))])

\* C25 witness: s01e01.avi comes before S01E01.mkv in the walk, both pass the
\* episode filter, and the episode is returned with the .avi file.
C25_Witness ==
    /\ scan_pc = "done"
    /\ scan_ret.kind = "Ok"
    /\ episodes_filter.some
    /\ Len(tree) = 3
    /\ tree[1] = FilePool[2] /\ tree[2] = FilePool[4] /\ tree[3] = FilePool[1]
    /\ Len(scan_ret.list) = 1
    /\ scan_ret.list[1].video_path = PathOf(FilePool[2])

(***************************************************************************)
(* Repeated scans of one root with the default cache directory             *)
(* (discovery/scanner.rs lines 213-217, extractor/subtitle.rs lines        *)
(* 293-309): what extract_best_subtitle writes lies below the root.        *)
(***************************************************************************)
\* the files extract_best_subtitle wrote during a scan:
\* <root>/.anytron_cache/subtitles/<video stem>.<ext>
CacheFilesOf(ps) ==
    {ExtractedPath(ps[i].video) : i \in {j \in DOMAIN ps : ps[j].outcome = "extracted"}}

\* the directory entry of a file (WalkDir also yields the two cache
\* directories, which the is_file test of the walk passes over)
FileEntry(path) == [dir |-> path.dir, name |-> path.name, is_file |-> TRUE]

\* the next scan of the same root: the input files are the same, and the walk
\* also comes by the files the scan before wrote into the cache directory
Rescan ==
    /\ scan_pc = "done"
    /\ root_exists
    /\ Len(scan_history) + 1 < MaxScans
    /\ scan_history' = Append(scan_history, [ret |-> scan_ret, probes |-> probes])
    /\ LET written == {FileEntry(p) : p \in CacheFilesOf(probes)} \ Range(tree)
       IN  \E s \in SeqsUpTo(written, Cardinality(written)) :
              /\ Len(s) = Cardinality(written)
              /\ Range(s) = written
              /\ tree' = tree \o s
    /\ scan_pc' = "start"
    /\ walk_idx' = 0
    /\ video_files' = EmptyMap
    /\ subtitle_files' = EmptyMap
    /\ pending' = {}
    /\ episodes' = <<>>
    /\ probes' = <<>>
    /\ scan_ret' = NoScanResult
    /\ UNCHANGED <<root_exists, seasons_filter, episodes_filter>>
    /\ UNCHANGED <<extractVars, episodeVars, scoreVars, streamVars, parseVars, assVars,
                   timestampVars, qualityVars, newIdVars, poolVars>>

RescanNext ==
    \/ ScanNext
    \/ Rescan

\* the files the earlier scans wrote into the cache directory
EarlierCacheFiles ==
    UNION {CacheFilesOf(scan_history[k].probes) : k \in DOMAIN scan_history}

\* the extractions of this scan came out as those of the scan before
SameOutcomes(before) ==
    \A i \in DOMAIN probes, j \in DOMAIN before :
        probes[i].id = before[j].id => probes[i].outcome = before[j].outcome

\* C28: scanning an unchanged input tree again with the default cache
\* directory gives the same Episode list: the file an earlier scan extracted
\* into <root>/.anytron_cache/subtitles is never an external subtitle
\* candidate, an episode reported as Embedded is reported as Embedded by the
\* later scans, and the list is the same whenever the extractions come out
\* the same.
C28_RescanSameList ==
    /\ \A id \in DOMAIN subtitle_files :
          \A i \in DOMAIN subtitle_files[id] : subtitle_files[id][i] \notin EarlierCacheFiles
    /\ (scan_pc = "done" /\ scan_history # <<>>) =>
          LET before == scan_history[Len(scan_history)]
          IN  /\ \A i \in DOMAIN before.ret.list, j \in DOMAIN scan_ret.list :
                    (/\ before.ret.list[i].id = scan_ret.list[j].id
                     /\ before.ret.list[i].subtitle_source.kind = "Embedded")
                    => scan_ret.list[j].subtitle_source.kind = "Embedded"
              /\ SameOutcomes(before.probes) => scan_ret = before.ret

\* the first scan of a root that holds S01E01.mkv alone extracted its
\* embedded subtitle to .anytron_cache/subtitles/S01E01.srt; the second scan
\* finds that file in its walk and reports the episode as External
C28_CachePickedUp ==
    /\ scan_pc = "done"
    /\ Len(scan_history) = 1
    /\ tree = <<FilePool[1], FileEntry(ExtractedPath(PathOf(FilePool[1])))>>
    /\ scan_history[1].ret.kind = "Ok"
    /\ scan_history[1].ret.list[1].subtitle_source.kind = "Embedded"
    /\ probes = <<>>
    /\ scan_ret.kind = "Ok"
    /\ scan_ret.list[1].subtitle_source =
          [kind |-> "External", path |-> ExtractedPath(PathOf(FilePool[1])),
           video_path |-> EmptyPath]


(***************************************************************************)
(* Embedded subtitle streams (extractor/subtitle.rs).                      *)
(***************************************************************************)
None == [some |-> FALSE, val |-> <<>>]

Some(v) == [some |-> TRUE, val |-> v]

\* SubtitleStream::is_english
is_english(s) ==
    IF s.language.some
    THEN LET lang_lower == ToLower(s.language.val)
         IN  lang_lower = <<"e","n","g">> \/ lang_lower = <<"e","n">> \/ lang_lower = <<"e","n","g","l","i","s","h">>
    ELSE IF s.title.some
    THEN LET title_lower == ToLower(s.title.val)
         IN  Contains(title_lower, <<"e","n","g","l","i","s","h">>) \/ title_lower = <<"e","n">> \/ title_lower = <<"e","n","g">>
    ELSE FALSE

\* SubtitleStream::appears_to_be_sdh
appears_to_be_sdh(s) ==
    IF s.is_hearing_impaired THEN TRUE
    ELSE IF s.title.some
    THEN LET title_lower == ToLower(s.title.val)
         IN  \/ Contains(title_lower, <<"s","d","h">>)
             \/ Contains(title_lower, <<"[","c","c","]">>)
             \/ Contains(title_lower, <<"(","c","c",")">>)
             \/ Contains(title_lower, <<"h","e","a","r","i","n","g"," ","i","m","p","a","i","r","e","d">>)
             \/ Contains(title_lower, <<"c","l","o","s","e","d"," ","c","a","p","t","i","o","n">>)
    ELSE FALSE

\* priority_score lines 98-104: the match on the codec
CodecScore(codec) ==
    IF codec \in {<<"s","u","b","r","i","p">>, <<"s","r","t">>} THEN 10
    ELSE IF codec \in {<<"a","s","s">>, <<"s","s","a">>} THEN 9
    ELSE IF codec \in {<<"w","e","b","v","t","t">>, <<"v","t","t">>} THEN 8
    ELSE IF codec = <<"m","o","v","_","t","e","x","t">> THEN 7
    ELSE 0

\* SubtitleStream::priority_score
priority_score_LowSdhWeight(s) ==
    (IF is_english(s) THEN 1000 ELSE 0)
    + (IF s.is_default THEN 100 ELSE 0)
    + (IF ~appears_to_be_sdh(s) THEN 30 ELSE 0)
    + (IF ~s.is_forced THEN 25 ELSE 0)
    + CodecScore(s.codec)
priority_score(s) ==
    (IF is_english(s) THEN 1000 ELSE 0)
    + (IF s.is_default THEN 100 ELSE 0)
    + (IF ~appears_to_be_sdh(s) THEN 50 ELSE 0)
    + (IF ~s.is_forced THEN 25 ELSE 0)
    + CodecScore(s.codec)

NoStream == [some |-> FALSE, index |-> -1]

SomeStream(s) == [some |-> TRUE, index |-> s.index]

\* SubtitleExtractor::select_best_stream; Iterator::max_by_key returns the
\* last of several maximal elements
select_best_stream(list) ==
    IF list = <<>> THEN NoStream
    ELSE LET key == [i \in DOMAIN list |-> priority_score(list[i])]
             last_max == CHOOSE i \in DOMAIN list :
                            \A j \in DOMAIN list : key[j] < key[i] \/ (key[j] = key[i] /\ j <= i)
         IN  SomeStream(list[last_max])

\* The subtitle streams a container may hold, each with its own index.
StreamPool ==
    << [index |-> 0, codec |-> <<"h","d","m","v","_","p","g","s","_","s","u","b","t","i","t","l","e">>,
        language |-> Some(<<"e","n","g">>),
        title |-> None,
        is_default |-> FALSE, is_forced |-> TRUE, is_hearing_impaired |-> TRUE],
       [index |-> 1, codec |-> <<"s","u","b","r","i","p">>,
        language |-> Some(<<"s","p","a">>),
        title |-> None,
        is_default |-> TRUE, is_forced |-> FALSE, is_hearing_impaired |-> FALSE],
       [index |-> 2, codec |-> <<"h","d","m","v","_","p","g","s","_","s","u","b","t","i","t","l","e">>,
        language |-> Some(<<"E","N","G">>),
        title |-> None,
        is_default |-> TRUE, is_forced |-> TRUE, is_hearing_impaired |-> TRUE],
       [index |-> 3, codec |-> <<"s","u","b","r","i","p">>,
        language |-> Some(<<"e","n">>),
        title |-> None,
        is_default |-> FALSE, is_forced |-> FALSE, is_hearing_impaired |-> FALSE],
       [index |-> 4, codec |-> <<"h","d","m","v","_","p","g","s","_","s","u","b","t","i","t","l","e">>,
        language |-> Some(<<"e","n","g","l","i","s","h">>),
        title |-> None,
        is_default |-> FALSE, is_forced |-> TRUE, is_hearing_impaired |-> FALSE],
       [index |-> 5, codec |-> <<"s","u","b","r","i","p">>,
        language |-> Some(<<"e","n","g">>),
        title |-> Some(<<"E","n","g","l","i","s","h"," ","[","S","D","H","]">>),
        is_default |-> FALSE, is_forced |-> FALSE, is_hearing_impaired |-> FALSE],
       [index |-> 6, codec |-> <<"h","d","m","v","_","p","g","s","_","s","u","b","t","i","t","l","e">>,
        language |-> None,
        title |-> Some(<<"E","n","g","l","i","s","h">>),
        is_default |-> FALSE, is_forced |-> FALSE, is_hearing_impaired |-> TRUE],
       [index |-> 7, codec |-> <<"s","r","t">>,
        language |-> Some(<<"e","n","g">>),
        title |-> Some(<<"C","l","o","s","e","d"," ","C","a","p","t","i","o","n","s">>),
        is_default |-> FALSE, is_forced |-> TRUE, is_hearing_impaired |-> FALSE],
       [index |-> 8, codec |-> <<"a","s","s">>,
        language |-> Some(<<"e","n","g">>),
        title |-> None,
        is_default |-> FALSE, is_forced |-> TRUE, is_hearing_impaired |-> TRUE],
       [index |-> 9, codec |-> <<"s","s","a">>,
        language |-> Some(<<"e","n","g">>),
        title |-> None,
        is_default |-> FALSE, is_forced |-> TRUE, is_hearing_impaired |-> TRUE],
       [index |-> 10, codec |-> <<"w","e","b","v","t","t">>,
        language |-> Some(<<"e","n","g">>),
        title |-> None,
        is_default |-> FALSE, is_forced |-> TRUE, is_hearing_impaired |-> TRUE],
       [index |-> 11, codec |-> <<"v","t","t">>,
        language |-> Some(<<"e","n","g">>),
        title |-> Some(<<"H","e","a","r","i","n","g"," ","I","m","p","a","i","r","e","d">>),
        is_default |-> FALSE, is_forced |-> TRUE, is_hearing_impaired |-> FALSE],
       [index |-> 12, codec |-> <<"m","o","v","_","t","e","x","t">>,
        language |-> Some(<<"e","n","g">>),
        title |-> Some(<<"(","C","C",")">>),
        is_default |-> FALSE, is_forced |-> TRUE, is_hearing_impaired |-> FALSE],
       [index |-> 13, codec |-> <<"s","u","b","r","i","p">>,
        language |-> Some(<<"f","r","e">>),
        title |-> Some(<<"E","n","g","l","i","s","h">>),
        is_default |-> TRUE, is_forced |-> FALSE, is_hearing_impaired |-> FALSE],
       [index |-> 14, codec |-> <<"s","u","b","r","i","p">>,
        language |-> None,
        title |-> None,
        is_default |-> TRUE, is_forced |-> FALSE, is_hearing_impaired |-> FALSE],
       [index |-> 15, codec |-> <<"S","U","B","R","I","P">>,
        language |-> None,
        title |-> Some(<<"e","n","g">>),
        is_default |-> FALSE, is_forced |-> TRUE, is_hearing_impaired |-> TRUE],
       [index |-> 16, codec |-> <<"m","o","v","_","t","e","x","t">>,
        language |-> None,
        title |-> Some(<<"E","N">>),
        is_default |-> TRUE, is_forced |-> FALSE, is_hearing_impaired |-> FALSE],
       [index |-> 17, codec |-> <<"a","s","s">>,
        language |-> None,
        title |-> Some(<<"S","i","g","n","s">>),
        is_default |-> TRUE, is_forced |-> FALSE, is_hearing_impaired |-> FALSE] >>

StreamLists ==
    {l \in SeqsUpTo(Range(StreamPool), MaxStreams) :
        \A i, j \in DOMAIN l : i # j => l[i] # l[j]}

NotChosen == [some |-> FALSE, index |-> -2]

StreamInit ==
    /\ streams \in StreamLists
    /\ chosen = NotChosen

\* a call of SubtitleExtractor::select_best_stream
SelectBestStream ==
    /\ chosen = NotChosen
    /\ chosen' = select_best_stream(streams)
    /\ UNCHANGED streams
    /\ UNCHANGED notStream

StreamNext == SelectBestStream

(***************************************************************************)
(* Claims about embedded stream selection.                                 *)
(***************************************************************************)
\* the criteria of a stream, most important first
Criteria ==
    [s \in Range(StreamPool) |->
        << IF is_english(s) THEN 1 ELSE 0,
           IF s.is_default THEN 1 ELSE 0,
           IF ~appears_to_be_sdh(s) THEN 1 ELSE 0,
           IF ~s.is_forced THEN 1 ELSE 0,
           CodecScore(s.codec) >>]

StreamScores == [s \in Range(StreamPool) |-> priority_score(s)]

\* a is above b in the lexicographic order of the criteria
LexAbove(a, b) ==
    \E k \in 1..5 :
        /\ \A m \in 1..(k - 1) : Criteria[a][m] = Criteria[b][m]
        /\ Criteria[a][k] > Criteria[b][k]

\* C8: select_best_stream returns None exactly for the empty list and
\* otherwise a stream of maximal priority_score, and priority_score orders
\* streams lexicographically by (English, default, not hearing-impaired, not
\* forced, codec rank).
C8_BestStreamLexicographic ==
    chosen # NotChosen =>
        /\ ~chosen.some <=> streams = <<>>
        /\ chosen.some =>
              \E i \in DOMAIN streams :
                  /\ chosen.index = streams[i].index
                  /\ \A j \in DOMAIN streams :
                        StreamScores[streams[j]] <= StreamScores[streams[i]]
        /\ \A i, j \in DOMAIN streams :
              /\ LexAbove(streams[i], streams[j])
                    => StreamScores[streams[i]] > StreamScores[streams[j]]
              /\ Criteria[streams[i]] = Criteria[streams[j]]
                    => StreamScores[streams[i]] = StreamScores[streams[j]]
        /\ CodecScore(<<"s","u","b","r","i","p">>) > CodecScore(<<"a","s","s">>)
        /\ CodecScore(<<"a","s","s">>) = CodecScore(<<"s","s","a">>)
        /\ CodecScore(<<"s","s","a">>) > CodecScore(<<"w","e","b","v","t","t">>)
        /\ CodecScore(<<"w","e","b","v","t","t">>) > CodecScore(<<"m","o","v","_","t","e","x","t">>)
        /\ CodecScore(<<"m","o","v","_","t","e","x","t">>) > CodecScore(<<"h","d","m","v","_","p","g","s","_","s","u","b","t","i","t","l","e">>)

\* C8 witness: a Spanish default stream that is best in every criterion but
\* the language, followed by an English stream that is not default and is
\* hearing impaired by its title: the English one is chosen.
C8_Witness ==
    /\ streams = <<StreamPool[2], StreamPool[6]>>
    /\ chosen = SomeStream(StreamPool[6])
    /\ Criteria[StreamPool[2]] = <<0, 1, 1, 1, 10>>
    /\ Criteria[StreamPool[6]] = <<1, 0, 0, 1, 10>>
    /\ StreamScores[StreamPool[2]] = 185
    /\ StreamScores[StreamPool[6]] = 1035

(***************************************************************************)
(* Subtitle parsing: text helpers (what the parsers use of std::str).      *)
(***************************************************************************)
\* the first occurrence of sep in s at or after position from, 0 if none
NextMatch(s, sep, from) ==
    LET hits == {i \in from..(Len(s) - Len(sep) + 1) : SubSeq(s, i, i + Len(sep) - 1) = sep}
    IN  IF hits = {} THEN 0 ELSE CHOOSE i \in hits : \A j \in hits : i <= j

\* str::split on a string pattern: the pieces between successive occurrences
RECURSIVE SplitFrom(_, _, _)
SplitFrom(s, sep, start) ==
    LET i == NextMatch(s, sep, start)
    IN  IF i = 0 THEN <<SubSeq(s, start, Len(s))>>
        ELSE <<SubSeq(s, start, i - 1)>> \o SplitFrom(s, sep, i + Len(sep))

Split(s, sep) == SplitFrom(s, sep, 1)

\* str::split on a set of characters
RECURSIVE SplitOnFrom(_, _, _, _)
SplitOnFrom(s, chars, start, i) ==
    IF i > Len(s) THEN <<SubSeq(s, start, Len(s))>>
    ELSE IF s[i] \in chars
    THEN <<SubSeq(s, start, i - 1)>> \o SplitOnFrom(s, chars, i + 1, i + 1)
    ELSE SplitOnFrom(s, chars, start, i + 1)

SplitOn(s, chars) == SplitOnFrom(s, chars, 1, 1)

\* str::lines: lines end at "\n" or "\r\n"; a last line without an ending
\* is a line unless it is empty, and keeps a carriage return it ends with
Lines(s) ==
    LET pieces == Split(s, <<"\n">>)
        n == Len(pieces)
        StripCr(l) == IF l # <<>> /\ l[Len(l)] = "\r" THEN SubSeq(l, 1, Len(l) - 1) ELSE l
        ended == [i \in 1..(n - 1) |-> StripCr(pieces[i])]
    IN  IF pieces[n] = <<>> THEN ended ELSE ended \o <<pieces[n]>>

\* [&str]::join
RECURSIVE Join(_, _)
Join(parts, sep) ==
    IF parts = <<>> THEN <<>>
    ELSE IF Len(parts) = 1 THEN parts[1]
    ELSE parts[1] \o sep \o Join(Tail(parts), sep)

\* str::replace
Replace(s, from, to) == Join(Split(s, from), to)

\* str::trim_start_matches('\u{feff}'); the byte-order mark is the character "BOM"
RECURSIVE StripBom(_)
StripBom(s) == IF s # <<>> /\ s[1] = "BOM" THEN StripBom(Tail(s)) ELSE s

\* str::split_whitespace().next().unwrap_or(s)
RECURSIVE TokenEnd(_, _)
TokenEnd(s, i) == IF i <= Len(s) /\ ~IsSpace(s[i]) THEN TokenEnd(s, i + 1) ELSE i - 1

FirstToken(s) ==
    LET t == TrimStart(s)
    IN  IF t = <<>> THEN s ELSE SubSeq(t, 1, TokenEnd(t, 1))

(***************************************************************************)
(* Timestamps (subtitle/types.rs).                                         *)
(***************************************************************************)
InvalidTimestamp == [ok |-> FALSE, ms |-> 0]

\* Timestamp::from_hms_ms
from_hms_ms_ShortHour(hours, minutes, seconds, millis) ==
    [ok |-> TRUE, ms |-> hours * 60 * 1000 + minutes * 60 * 1000 + seconds * 1000 + millis]
from_hms_ms(hours, minutes, seconds, millis) ==
    [ok |-> TRUE, ms |-> hours * 3600 * 1000 + minutes * 60 * 1000 + seconds * 1000 + millis]

\* Timestamp::parse_srt
parse_srt(str) ==
    LET s == Trim(str)
        parts == SplitOn(s, {":", ","})
    IN  IF Len(parts) # 4 THEN InvalidTimestamp
        ELSE LET hours == ParseUInt(parts[1])
                 minutes == ParseUInt(parts[2])
                 seconds == ParseUInt(parts[3])
                 millis == ParseUInt(parts[4])
             IN  IF hours < 0 \/ minutes < 0 \/ seconds < 0 \/ millis < 0 THEN InvalidTimestamp
                 ELSE IF hours > 23 \/ minutes > 59 \/ seconds > 60 \/ millis > 999
                 THEN InvalidTimestamp
                 ELSE from_hms_ms(hours, minutes, seconds, millis)

\* Timestamp::parse_vtt
parse_vtt(str) ==
    LET s == Trim(str)
        parts == SplitOn(s, {":", "."})
    IN  IF Len(parts) = 3
        THEN LET minutes == ParseUInt(parts[1])
                 seconds == ParseUInt(parts[2])
                 millis == ParseUInt(parts[3])
             IN  IF minutes < 0 \/ seconds < 0 \/ millis < 0 THEN InvalidTimestamp
                 ELSE from_hms_ms(0, minutes, seconds, millis)
        ELSE IF Len(parts) = 4
        THEN LET hours == ParseUInt(parts[1])
                 minutes == ParseUInt(parts[2])
                 seconds == ParseUInt(parts[3])
                 millis == ParseUInt(parts[4])
             IN  IF hours < 0 \/ minutes < 0 \/ seconds < 0 \/ millis < 0 THEN InvalidTimestamp
                 ELSE from_hms_ms(hours, minutes, seconds, millis)
        ELSE InvalidTimestamp

(***************************************************************************)
(* The SRT and WebVTT parsers (subtitle/srt.rs, subtitle/vtt.rs).          *)
(***************************************************************************)
TimesErr(msg) == [ok |-> FALSE, start |-> 0, end |-> 0, message |-> msg]

Times(start, end) == [ok |-> TRUE, start |-> start, end |-> end, message |-> ""]

\* srt.rs parse_timestamp_line
srt_parse_timestamp_line(line) ==
    LET parts == Split(line, <<"-","-",">">>)
    IN  IF Len(parts) # 2 THEN TimesErr("Invalid timestamp line")
        ELSE LET start == parse_srt(Trim(parts[1]))
                 end == parse_srt(Trim(parts[2]))
             IN  IF ~start.ok THEN TimesErr("Invalid start timestamp")
                 ELSE IF ~end.ok THEN TimesErr("Invalid end timestamp")
                 ELSE Times(start.ms, end.ms)

\* vtt.rs parse_timestamp_line
vtt_parse_timestamp_line(line) ==
    LET parts == Split(line, <<"-","-",">">>)
    IN  IF Len(parts) # 2 THEN TimesErr("Invalid timestamp line")
        ELSE LET start == parse_vtt(Trim(parts[1]))
                 end_part == Trim(parts[2])
                 end_time == FirstToken(end_part)
                 end == parse_vtt(end_time)
             IN  IF ~start.ok THEN TimesErr("Invalid start timestamp")
                 ELSE IF ~end.ok THEN TimesErr("Invalid end timestamp")
                 ELSE Times(start.ms, end.ms)

\* SubtitleEntry::new, without the derived text_clean
SubtitleEntry_IndexOne(index, start, end, text) ==
    [index |-> 1, start |-> start, end |-> end, text |-> text]
SubtitleEntry(index, start, end, text) ==
    [index |-> index, start |-> start, end |-> end, text |-> text]

OkEntries(entries) == [kind |-> "Ok", entries |-> entries, line |-> 0, message |-> ""]

SubtitleParse(line, message) ==
    [kind |-> "SubtitleParse", entries |-> <<>>, line |-> line, message |-> message]

\* srt.rs parse_str lines 41-72: the loop over the blocks from the k-th on
RECURSIVE SrtBlocks(_, _, _)
SrtBlocks(blocks, k, entries) ==
    IF k > Len(blocks) THEN OkEntries(entries)
    ELSE LET block == Trim(blocks[k])
             lines == Lines(block)
         IN  IF block = <<>> THEN SrtBlocks(blocks, k + 1, entries)
             ELSE IF Len(lines) < 3 THEN SrtBlocks(blocks, k + 1, entries)
             ELSE LET index == ParseUInt(Trim(lines[1]))
                      times == srt_parse_timestamp_line(Trim(lines[2]))
                      text == Join(SubSeq(lines, 3, Len(lines)), <<"\n">>)
                  IN  IF index < 0 THEN SrtBlocks(blocks, k + 1, entries)
                      ELSE IF ~times.ok THEN SubtitleParse(index, times.message)
                      ELSE SrtBlocks(blocks, k + 1,
                               Append(entries, SubtitleEntry(index, times.start, times.end, text)))

\* srt.rs parse_str
srt_parse_str(text) == SrtBlocks(Split(StripBom(text), <<"\n", "\n">>), 1, <<>>)

\* vtt.rs parse_cue: "none", "error" or "entry"
parse_cue_TextFirst(block, index) ==
    LET lines == Lines(block)
        line_idx == IF lines # <<>> /\ ~Contains(lines[1], <<"-","-",">">>) THEN 1 ELSE 0
    IN  IF lines = <<>> THEN [kind |-> "none"]
        ELSE IF line_idx = 1 /\ Len(lines) < 2 THEN [kind |-> "none"]
        ELSE LET timestamp_line == IF line_idx + 1 <= Len(lines) THEN lines[line_idx + 1] ELSE <<>>
                 times == vtt_parse_timestamp_line(timestamp_line)
                 text == Join(SubSeq(lines, line_idx + 2, Len(lines)), <<"\n">>)
             IN  IF ~Contains(timestamp_line, <<"-","-",">">>) THEN [kind |-> "none"]
                 ELSE IF text = <<>> THEN [kind |-> "none"]
                 ELSE IF ~times.ok
                 THEN [kind |-> "error", error |-> SubtitleParse(index + 1, times.message)]
                 ELSE [kind |-> "entry",
                       entry |-> SubtitleEntry(index + 1, times.start, times.end, text)]
parse_cue(block, index) ==
    LET lines == Lines(block)
        line_idx == IF lines # <<>> /\ ~Contains(lines[1], <<"-","-",">">>) THEN 1 ELSE 0
    IN  IF lines = <<>> THEN [kind |-> "none"]
        ELSE IF line_idx = 1 /\ Len(lines) < 2 THEN [kind |-> "none"]
        ELSE LET timestamp_line == IF line_idx + 1 <= Len(lines) THEN lines[line_idx + 1] ELSE <<>>
                 times == vtt_parse_timestamp_line(timestamp_line)
                 text == Join(SubSeq(lines, line_idx + 2, Len(lines)), <<"\n">>)
             IN  IF ~Contains(timestamp_line, <<"-","-",">">>) THEN [kind |-> "none"]
                 ELSE IF ~times.ok
                 THEN [kind |-> "error", error |-> SubtitleParse(index + 1, times.message)]
                 ELSE IF text = <<>> THEN [kind |-> "none"]
                 ELSE [kind |-> "entry",
                       entry |-> SubtitleEntry(index + 1, times.start, times.end, text)]

\* vtt.rs parse_str lines 43-74: the loop over the blocks from the k-th on
RECURSIVE VttBlocks(_, _, _, _)
VttBlocks(blocks, k, index, entries) ==
    IF k > Len(blocks) THEN OkEntries(entries)
    ELSE LET block == Trim(blocks[k])
         IN  IF \/ block = <<>>
                \/ StartsWith(block, <<"W","E","B","V","T","T">>)
                \/ StartsWith(block, <<"N","O","T","E">>)
                \/ StartsWith(block, <<"S","T","Y","L","E">>)
                \/ StartsWith(block, <<"R","E","G","I","O","N">>)
             THEN VttBlocks(blocks, k + 1, index, entries)
             ELSE LET cue == parse_cue(block, index)
                  IN  IF cue.kind = "error" THEN cue.error
                      ELSE IF cue.kind = "entry"
                      THEN VttBlocks(blocks, k + 1, index + 1, Append(entries, cue.entry))
                      ELSE VttBlocks(blocks, k + 1, index, entries)

\* vtt.rs parse_str
vtt_parse_str(text) == VttBlocks(Split(StripBom(text), <<"\n", "\n">>), 1, 0, <<>>)

\* the parser of a format
parse_str(format, text) ==
    IF format = "srt" THEN srt_parse_str(text) ELSE vtt_parse_str(text)

\* Blocks of SRT files.
SrtBlockPool ==
    << <<"1","\n","0","0",":","0","0",":","0","1",",","0","0","0"," ","-","-",">"," ","0","0",":","0","0",":","0","2",",","0","0","0","\n","H","e","l","l","o">>,
       <<"2","\n","0",":","0",":","3",",","0"," ","-","-",">"," ","0",":","0",":","4",",","5","0","0","\n","T","w","o","\n","l","i","n","e","s">>,
       <<" ","6"," ","\n"," ","0",":","0",":","5",",","0"," ","-","-",">"," ","0",":","0",":","6",",","0"," ","\n","T","e","x","t">>,
       <<"+","9","\n","0",":","0",":","7",",","0"," ","-","-",">"," ","0",":","0",":","8",",","0","\n","P","l","u","s">>,
       <<"7","\n","0",":","0",":","1",",","0"," ","-","-",">"," ","0",":","0",":","2",",","0">>,
       <<"x","\n","0",":","0",":","1",",","0"," ","-","-",">"," ","0",":","0",":","2",",","0","\n","T","e","x","t">>,
       <<"-","1","\n","0",":","0",":","1",",","0"," ","-","-",">"," ","0",":","0",":","2",",","0","\n","T","e","x","t">>,
       <<"x","\n","b","o","g","u","s","\n","T","e","x","t">>,
       <<"5","\n","b","o","g","u","s">>,
       <<>>,
       <<"3","\n","b","o","g","u","s","\n","T","e","x","t">>,
       <<"4","\n","0",":","0",":","1",",","0"," ","-","-",">"," ","0",":","9","9",":","2",",","0","\n","T","e","x","t">>,
       <<"8","\n","0",":","0",":","1",",","0"," ","-","-",">"," ","0",":","0",":","2",",","0"," ","-","-",">"," ","0",":","0",":","3",",","0","\n","T","e","x","t">> >>

\* Blocks of WebVTT files.
VttBlockPool ==
    << <<"W","E","B","V","T","T">>,
       <<"N","O","T","E"," ","c","o","m","m","e","n","t","\n","0","0",":","0","1",".","0","0","0"," ","-","-",">"," ","b","o","g","u","s">>,
       <<"S","T","Y","L","E","\n",":",":","c","u","e"," ","{"," ","}">>,
       <<"R","E","G","I","O","N","\n","i","d",":","r">>,
       <<"0","0",":","0","1",".","0","0","0"," ","-","-",">"," ","0","0",":","0","2",".","0","0","0","\n","H","e","l","l","o">>,
       <<"i","d","1","\n","0","0",":","0","0",":","0","3",".","0","0","0"," ","-","-",">"," ","0","0",":","0","0",":","0","4",".","0","0","0"," ","a","l","i","g","n",":","s","t","a","r","t","\n","T","w","o","\n","l","i","n","e","s">>,
       <<"j","u","s","t"," ","t","e","x","t">>,
       <<"i","d","\n","m","o","r","e"," ","t","e","x","t","\n","0","0",":","0","1",".","0","0","0"," ","-","-",">"," ","0","0",":","0","2",".","0","0","0","\n","T","e","x","t">>,
       <<"0","0",":","0","1",".","0","0","0"," ","-","-",">"," ","0","0",":","0","2",".","0","0","0">>,
       <<"i","d","\n","0","0",":","0","1",".","0","0","0"," ","-","-",">"," ","0","0",":","0","2",".","0","0","0">>,
       <<"0","0",":","0","1",".","0","0","0"," ","-","-",">"," ","b","o","g","u","s">>,
       <<"0","0",":","0","1",".","0","0","0"," ","-","-",">"," ","b","o","g","u","s","\n","T","e","x","t">>,
       <<"i","d","\n","x","x"," ","-","-",">"," ","0","0",":","0","2",".","0","0","0","\n","T","e","x","t">> >>

BlockPool(format) == IF format = "srt" THEN SrtBlockPool ELSE VttBlockPool

\* the content of a file made of the given blocks
FileOf(blocks) == Join(blocks, <<"\n", "\n">>)

NotParsedYet == [kind |-> "None", entries |-> <<>>, line |-> 0, message |-> ""]

ParseInit ==
    /\ sub_format \in {"srt", "vtt"}
    /\ blocks_in \in SeqsUpTo(Range(BlockPool(sub_format)), MaxBlocks)
    /\ content = FileOf(blocks_in)
    /\ parse_ret = NotParsedYet

\* the byte-order marks a file may start with: none or one
BomPrefixes == {<<>>, <<"BOM">>}

\* An SRT file as an editor saves it: with or without a byte-order mark, its
\* lines ended by LF or by CRLF.
SrtFileInit ==
    /\ sub_format = "srt"
    /\ blocks_in \in SeqsUpTo(Range(SrtBlockPool), MaxBlocks)
    /\ \E bom \in BomPrefixes, eol \in {<<"\n">>, <<"\r", "\n">>} :
          content = bom \o Replace(FileOf(blocks_in), <<"\n">>, eol)
    /\ parse_ret = NotParsedYet

\* a call of srt::parse_str or vtt::parse_str
ParseContent ==
    /\ parse_ret = NotParsedYet
    /\ parse_ret' = parse_str(sub_format, content)
    /\ UNCHANGED <<sub_format, blocks_in, content>>
    /\ UNCHANGED notParse

ParseNext == ParseContent

(***************************************************************************)
(* Claims about the SRT and WebVTT parsers, stated over the blocks of the  *)
(* file, the pieces between blank lines.                                   *)
(***************************************************************************)
BlockLines(b) == Lines(Trim(b))

\* an unsigned integer as usize::from_str reads it: digits after an optional +
IsUnsignedInteger(s) ==
    LET digits == IF s # <<>> /\ Head(s) = "+" THEN Tail(s) ELSE s
    IN  digits # <<>> /\ \A i \in DOMAIN digits : IsDigit(digits[i])

\* SRT: fewer than 3 lines, or a first line that is not an unsigned integer
SrtMalformed ==
    [b \in Range(SrtBlockPool) |->
        \/ Len(BlockLines(b)) < 3
        \/ ~IsUnsignedInteger(Trim(BlockLines(b)[1]))]

\* SRT: a block that is well formed but for its timestamp line
SrtInvalidTimestamp ==
    [b \in Range(SrtBlockPool) |->
        /\ ~SrtMalformed[b]
        /\ ~srt_parse_timestamp_line(Trim(BlockLines(b)[2])).ok]

HeaderLike(b) ==
    \E w \in {<<"W","E","B","V","T","T">>, <<"N","O","T","E">>, <<"S","T","Y","L","E">>, <<"R","E","G","I","O","N">>} :
        Len(w) <= Len(Trim(b)) /\ SubSeq(Trim(b), 1, Len(w)) = w

HasArrow(l) == \E i \in 1..(Len(l) - 2) : SubSeq(l, i, i + 2) = <<"-","-",">">>

\* no --> in the first or the second line
NoArrow(b) ==
    \/ BlockLines(b) = <<>>
    \/ /\ ~HasArrow(BlockLines(b)[1])
       /\ Len(BlockLines(b)) < 2 \/ ~HasArrow(BlockLines(b)[2])

TimestampLine(b) ==
    IF HasArrow(BlockLines(b)[1]) THEN BlockLines(b)[1] ELSE BlockLines(b)[2]

\* a cue that ends with its timestamp line
NoText(b) ==
    /\ ~NoArrow(b)
    /\ BlockLines(b)[Len(BlockLines(b))] = TimestampLine(b)

\* VTT, as stated: a WEBVTT/NOTE/STYLE/REGION block, a block with no --> in
\* its first or second line, or a cue with no text
VttMalformedAsStated ==
    [b \in Range(VttBlockPool) |-> HeaderLike(b) \/ NoArrow(b) \/ NoText(b)]

VttInvalidTimestampAsStated ==
    [b \in Range(VttBlockPool) |->
        /\ ~VttMalformedAsStated[b]
        /\ ~vtt_parse_timestamp_line(TimestampLine(b)).ok]

\* VTT, amended: a cue with no text is malformed if its timestamp line is valid
VttMalformed ==
    [b \in Range(VttBlockPool) |->
        \/ HeaderLike(b)
        \/ NoArrow(b)
        \/ NoText(b) /\ vtt_parse_timestamp_line(TimestampLine(b)).ok]

VttInvalidTimestamp ==
    [b \in Range(VttBlockPool) |->
        /\ ~VttMalformed[b]
        /\ ~vtt_parse_timestamp_line(TimestampLine(b)).ok]

\* with the given malformed and invalid-timestamp blocks: a file parses as it
\* does without its malformed blocks, a file of malformed blocks only gives
\* no entry and no error, a block with an invalid timestamp line makes the
\* result SubtitleParse without entries, and a file without such a block
\* gives one entry for each block that is not malformed
LenientStrict(malformed, invalid) ==
    LET kept == SelectSeq(blocks_in, LAMBDA b : ~malformed[b])
    IN  /\ parse_ret = parse_str(sub_format, FileOf(kept))
        /\ kept = <<>> => parse_ret = OkEntries(<<>>)
        /\ (\E i \in DOMAIN blocks_in : invalid[blocks_in[i]]) =>
              parse_ret.kind = "SubtitleParse" /\ parse_ret.entries = <<>>
        /\ (\A i \in DOMAIN blocks_in : ~invalid[blocks_in[i]]) =>
              /\ parse_ret.kind = "Ok"
              /\ Len(parse_ret.entries) = Len(kept)
              /\ \A i \in DOMAIN kept :
                    LET alone == parse_str(sub_format, kept[i]).entries[1]
                    IN  /\ parse_ret.entries[i].start = alone.start
                        /\ parse_ret.entries[i].end = alone.end
                        /\ parse_ret.entries[i].text = alone.text

\* C9 as stated: in the SRT and WebVTT parsers a malformed block (VTT: also
\* every cue with no text) contributes no entry and no error and leaves the
\* entries of the other blocks as they are, and an invalid timestamp line in
\* an otherwise well-formed block aborts the file with SubtitleParse.
C9_NoTextNeverAnError ==
    parse_ret # NotParsedYet =>
        IF sub_format = "srt"
        THEN LenientStrict(SrtMalformed, SrtInvalidTimestamp)
        ELSE LenientStrict(VttMalformedAsStated, VttInvalidTimestampAsStated)

\* C9 (amended): the same, a VTT cue with no text being skipped only if its
\* timestamp line is valid; with an invalid timestamp line it aborts the file
\* like any other cue.
C9_LenientBlocksStrictTimestamps ==
    parse_ret # NotParsedYet =>
        IF sub_format = "srt"
        THEN LenientStrict(SrtMalformed, SrtInvalidTimestamp)
        ELSE LenientStrict(VttMalformed, VttInvalidTimestamp)

\* C9 witness: a WebVTT cue with a valid timestamp line and no text in front
\* of a cue with text: one entry, numbered 1.
C9_Witness ==
    /\ sub_format = "vtt"
    /\ blocks_in = <<VttBlockPool[9], VttBlockPool[5]>>
    /\ VttMalformed[VttBlockPool[9]] /\ ~HeaderLike(VttBlockPool[9]) /\ NoText(VttBlockPool[9])
    /\ parse_ret.kind = "Ok"
    /\ Len(parse_ret.entries) = 1
    /\ parse_ret.entries[1].index = 1
    /\ parse_ret.entries[1].start = 1000

\* the content with every CRLF replaced by LF and without its byte-order mark
Normalized(text) == Replace(StripBom(text), <<"\r", "\n">>, <<"\n">>)

\* C12: the SRT parse_str returns for a content with CRLF line endings, with
\* or without a leading byte-order mark, what it returns for the same
\* content with every CRLF replaced by LF and no byte-order mark.
C12_CrlfAndBomMakeNoDifference ==
    parse_ret # NotParsedYet => parse_ret = srt_parse_str(Normalized(content))

\* the part of C12 the code keeps: the byte-order mark changes nothing, and
\* neither does CRLF in a file of a single block
C12_BomAndSingleBlock ==
    parse_ret # NotParsedYet =>
        /\ parse_ret = srt_parse_str(StripBom(content))
        /\ Len(blocks_in) <= 1 => parse_ret = srt_parse_str(Normalized(content))

\* two CRLF blocks come back as one entry, the second block inside its text
C12_CrlfBlocksMerged ==
    /\ blocks_in = <<SrtBlockPool[1], SrtBlockPool[2]>>
    /\ Contains(content, <<"\r", "\n">>)
    /\ parse_ret.kind = "Ok"
    /\ Len(parse_ret.entries) = 1
    /\ Len(srt_parse_str(Normalized(content)).entries) = 2

(***************************************************************************)
(* The ASS parser (subtitle/ass.rs).                                       *)
(***************************************************************************)
\* Timestamp::parse_ass
parse_ass(str) ==
    LET s == Trim(str)
        parts == SplitOn(s, {":", "."})
    IN  IF Len(parts) # 4 THEN InvalidTimestamp
        ELSE LET hours == ParseUInt(parts[1])
                 minutes == ParseUInt(parts[2])
                 seconds == ParseUInt(parts[3])
                 centis == ParseUInt(parts[4])
             IN  IF hours < 0 \/ minutes < 0 \/ seconds < 0 \/ centis < 0 THEN InvalidTimestamp
                 ELSE IF hours > 23 \/ minutes > 59 \/ seconds > 60 \/ centis > 99
                 THEN InvalidTimestamp
                 ELSE from_hms_ms(hours, minutes, seconds, centis * 10)

\* str::split_once(':').map(|x| x.1).unwrap_or("")
AfterColon(line) ==
    LET k == Find(line, <<":">>)
    IN  IF k = 0 THEN <<>> ELSE From(line, k + 1)

NoFormat == [some |-> FALSE, start |-> 0, end |-> 0, text |-> 0, total_fields |-> 0]

\* the last position (0-based) of a field of the given name, or the default
RECURSIVE FieldIndex(_, _, _, _)
FieldIndex(fields, name, i, found) ==
    IF i > Len(fields) THEN found
    ELSE FieldIndex(fields, name, i + 1,
                    IF ToLower(fields[i]) = name THEN i - 1 ELSE found)

\* ass.rs parse_format_line; the indices count from 0
parse_format_line(line) ==
    LET split == Split(AfterColon(line), <<",">>)
        fields == [i \in DOMAIN split |-> Trim(split[i])]
    IN  [some |-> TRUE,
         start |-> FieldIndex(fields, <<"s","t","a","r","t">>, 1, 1),
         end |-> FieldIndex(fields, <<"e","n","d">>, 1, 2),
         text |-> FieldIndex(fields, <<"t","e","x","t">>, 1, IF Len(fields) >= 1 THEN Len(fields) - 1 ELSE 0),
         total_fields |-> Len(fields)]

\* parse_dialogue_line lines 123-135: the fields, the last one taking the rest
DialogueFields_SplitAll(remaining, n) == Split(remaining, <<",">>)
RECURSIVE DialogueFields(_, _)
DialogueFields(remaining, n) ==
    IF n = 0 THEN <<remaining>>
    ELSE LET comma_pos == Find(remaining, <<",">>)
         IN  IF comma_pos # 0
             THEN <<SubSeq(remaining, 1, comma_pos - 1)>>
                      \o DialogueFields(From(remaining, comma_pos + 1), n - 1)
             ELSE <<remaining>> \o DialogueFields(<<>>, n - 1)

Panic == [kind |-> "Panic", entries |-> <<>>, line |-> 0, message |-> "index out of bounds"]

\* ass.rs parse_dialogue_line: "none" (Ok(None)), "error" or "entry"
parse_dialogue_line(line, fmt, index, line_no) ==
    LET fields == DialogueFields(Trim(AfterColon(line)), fmt.total_fields - 1)
    IN  IF Len(fields) < fmt.total_fields THEN [kind |-> "none"]
        ELSE IF fmt.start + 1 > Len(fields) THEN [kind |-> "error", error |-> Panic]
        ELSE LET start == parse_ass(fields[fmt.start + 1])
             IN  IF ~start.ok
                 THEN [kind |-> "error",
                       error |-> SubtitleParse(line_no + 1, "Invalid start timestamp")]
                 ELSE IF fmt.end + 1 > Len(fields) THEN [kind |-> "error", error |-> Panic]
                 ELSE LET end == parse_ass(fields[fmt.end + 1])
                      IN  IF ~end.ok
                          THEN [kind |-> "error",
                                error |-> SubtitleParse(line_no + 1, "Invalid end timestamp")]
                          ELSE IF fmt.text + 1 > Len(fields)
                          THEN [kind |-> "error", error |-> Panic]
                          ELSE [kind |-> "entry",
                                entry |-> SubtitleEntry(index + 1, start.ms, end.ms,
                                    Replace(Replace(fields[fmt.text + 1], <<"\\","N">>, <<"\n">>),
                                            <<"\\","n">>, <<"\n">>))]

\* line.starts_with('[') && line.ends_with(']')
IsSectionHeader(line) == line # <<>> /\ line[1] = "[" /\ line[Len(line)] = "]"

\* parse_str lines 58-64: the error for a Dialogue line without a format
DialogueBeforeFormat_ZeroBased(line_no) ==
    SubtitleParse(line_no, "Dialogue line before Format line")
DialogueBeforeFormat(line_no) ==
    SubtitleParse(line_no + 1, "Dialogue line before Format line")

\* parse_str lines 39-71: one turn of the loop over the lines; st holds
\* in_events_section, format_indices, index, entries and the error, if any
AssStep(st, raw_line, line_no) ==
    LET line == Trim(raw_line)
    IN  IF IsSectionHeader(line)
        THEN [st EXCEPT !.in_events_section = eq_ignore_ascii_case(line, <<"[","e","v","e","n","t","s","]">>)]
        ELSE IF ~st.in_events_section THEN st
        ELSE IF StartsWith(ToLower(line), <<"f","o","r","m","a","t",":">>)
        THEN [st EXCEPT !.format_indices = parse_format_line(line)]
        ELSE IF StartsWith(ToLower(line), <<"d","i","a","l","o","g","u","e",":">>)
        THEN IF ~st.format_indices.some
             THEN [st EXCEPT !.ret = DialogueBeforeFormat(line_no)]
             ELSE LET d == parse_dialogue_line(line, st.format_indices, st.index, line_no)
                  IN  IF d.kind = "error" THEN [st EXCEPT !.ret = d.error]
                      ELSE IF d.kind = "none" THEN st
                      ELSE [st EXCEPT !.index = st.index + 1,
                                      !.entries = Append(st.entries, d.entry)]
        ELSE st

AssStart ==
    [in_events_section |-> FALSE, format_indices |-> NoFormat, index |-> 0,
     entries |-> <<>>, ret |-> NotParsedYet]

\* parse_str lines 33-37: the lines the loop goes over
AssLines(text) == Lines(Replace(StripBom(text), <<"\r", "\n">>, <<"\n">>))

\* ass.rs parse_str as a whole
RECURSIVE AssRun(_, _, _)
AssRun(st, lines, k) ==
    IF st.ret # NotParsedYet THEN st.ret
    ELSE IF k > Len(lines) THEN OkEntries(st.entries)
    ELSE AssRun(AssStep(st, lines[k], k - 1), lines, k + 1)

ass_parse_str(text) == AssRun(AssStart, AssLines(text), 1)

\* Lines of ASS files.
AssLinePool ==
    << <<"[","E","v","e","n","t","s","]">>,
       <<"[","S","t","y","l","e","s","]">>,
       <<"F","o","r","m","a","t",":"," ","S","t","a","r","t",","," ","E","n","d",","," ","T","e","x","t">>,
       <<"D","i","a","l","o","g","u","e",":"," ","0",":","0","0",":","0","1",".","0","0",",","0",":","0","0",":","0","2",".","0","0",",","H","i",","," ","t","h","e","r","e">>,
       <<"d","i","a","l","o","g","u","e",":"," ","0",":","0","0",":","0","3",".","0","0",",","b","o","g","u","s",",","x">>,
       <<"[","E","V","E","N","T","S","]">> >>

LineEndings == {<<"\n">>, <<"\r", "\n">>}

AssInit ==
    /\ ass_lines_in \in SeqsUpTo(Range(AssLinePool), MaxLines)
    /\ \E eol \in LineEndings : ass_content = Join(ass_lines_in, eol)
    /\ ass_pc = "start"
    /\ ass_lines = <<>>
    /\ line_num = 0
    /\ in_events_section = FALSE
    /\ format_indices = NoFormat
    /\ ass_index = 0
    /\ ass_entries = <<>>
    /\ ass_ret = NotParsedYet

\* Format lines: Text last, Text before the last field, no Text, too few fields.
FormatLinePool ==
    << <<"F","o","r","m","a","t",":"," ","L","a","y","e","r",","," ","S","t","a","r","t",","," ","E","n","d",","," ","T","e","x","t">>,
       <<"F","o","r","m","a","t",":"," ","S","t","a","r","t",","," ","E","n","d",","," ","T","e","x","t">>,
       <<"f","o","r","m","a","t",":"," ","S","t","a","r","t",","," ","E","n","d",","," ","T","e","x","t",","," ","E","f","f","e","c","t">>,
       <<"F","o","r","m","a","t",":"," ","S","t","a","r","t",","," ","E","n","d">>,
       <<"F","o","r","m","a","t",":"," ","T","e","x","t">>,
       <<"F","o","r","m","a","t",":"," ","T","e","x","t",","," ","S","t","a","r","t",","," ","E","n","d",","," ","T","e","x","t">> >>

\* Dialogue lines with commas, escapes and missing fields in their text.
DialogueLinePool ==
    << <<"D","i","a","l","o","g","u","e",":"," ","0",":","0","0",":","0","1",".","0","0",",","0",":","0","0",":","0","2",".","0","0",",","H","i",","," ","t","h","e","r","e">>,
       <<"D","i","a","l","o","g","u","e",":"," ","0",",","0",":","0","0",":","0","1",".","0","0",",","0",":","0","0",":","0","4",".","0","0",",","H","e","l","l","o",","," ","w","o","r","l","d",","," ","h","o","w"," ","a","r","e"," ","y","o","u","?">>,
       <<"D","i","a","l","o","g","u","e",":"," ","0",":","0","0",":","0","3",".","0","0",",","0",":","0","0",":","0","4",".","0","0",",","a","\\","N","b",",","c"," "," ">>,
       <<"D","i","a","l","o","g","u","e",":"," ","0",":","0","0",":","0","5",".","0","0",",","0",":","0","0",":","0","6",".","0","0">>,
       <<"D","i","a","l","o","g","u","e",":"," ","0",":","0","0",":","0","7",".","0","0",",","0",":","0","0",":","0","8",".","0","0",",">>,
       <<"D","i","a","l","o","g","u","e",":"," ","0",":","0","0",":","0","3",".","0","0",",","b","o","g","u","s",",","x">>,
       <<"D","i","a","l","o","g","u","e",":","0",":","0","0",":","0","9",".","0","0",",","0",":","0","0",":","1","0",".","0","0",","," ","x",":","y",",","\\","n","z">>,
       <<"d","i","a","l","o","g","u","e",":"," ","1",",","0",":","0","0",":","0","1",".","0","0",",","0",":","0","0",":","0","2",".","0","0",",",",","A",",",",","B">> >>

\* An [Events] section of a Format line and the Dialogue lines after it.
AssFieldsInit ==
    /\ \E f \in Range(FormatLinePool), ds \in SeqsUpTo(Range(DialogueLinePool), MaxDialogues) :
          /\ ds # <<>>
          /\ ass_lines_in = <<AssLinePool[1], f>> \o ds
    /\ \E eol \in LineEndings : ass_content = Join(ass_lines_in, eol)
    /\ ass_pc = "start"
    /\ ass_lines = <<>>
    /\ line_num = 0
    /\ in_events_section = FALSE
    /\ format_indices = NoFormat
    /\ ass_index = 0
    /\ ass_entries = <<>>
    /\ ass_ret = NotParsedYet

\* parse_str lines 28-37
AssBegin ==
    /\ ass_pc = "start"
    /\ ass_lines' = AssLines(ass_content)
    /\ ass_pc' = "loop"
    /\ UNCHANGED <<ass_lines_in, ass_content, line_num, in_events_section, format_indices,
                   ass_index, ass_entries, ass_ret>>
    /\ UNCHANGED notAss

\* parse_str lines 39-71: one line
AssLine ==
    /\ ass_pc = "loop"
    /\ line_num < Len(ass_lines)
    /\ LET st == AssStep([in_events_section |-> in_events_section,
                          format_indices |-> format_indices, index |-> ass_index,
                          entries |-> ass_entries, ret |-> NotParsedYet],
                         ass_lines[line_num + 1], line_num)
       IN  /\ in_events_section' = st.in_events_section
           /\ format_indices' = st.format_indices
           /\ ass_index' = st.index
           /\ ass_entries' = st.entries
           /\ ass_ret' = st.ret
           /\ ass_pc' = IF st.ret # NotParsedYet THEN "done" ELSE "loop"
           /\ line_num' = IF st.ret # NotParsedYet THEN line_num ELSE line_num + 1
    /\ UNCHANGED <<ass_lines_in, ass_content, ass_lines>>
    /\ UNCHANGED notAss

\* parse_str line 74
AssReturn ==
    /\ ass_pc = "loop"
    /\ line_num = Len(ass_lines)
    /\ ass_ret' = OkEntries(ass_entries)
    /\ ass_pc' = "done"
    /\ UNCHANGED <<ass_lines_in, ass_content, ass_lines, line_num, in_events_section,
                   format_indices, ass_index, ass_entries>>
    /\ UNCHANGED notAss

AssNext ==
    \/ AssBegin
    \/ AssLine
    \/ AssReturn

(***************************************************************************)
(* Claims about the ASS parser, stated over the lines of the file.         *)
(***************************************************************************)
\* what each line of the pool is: a section header, the [Events] header, a
\* Format line, a Dialogue line
LineKind ==
    [l \in Range(AssLinePool) |->
        LET t == Trim(l)
            HasPrefix(p) == Len(t) >= Len(p) /\ ToLower(SubSeq(t, 1, Len(p))) = p
        IN  [header |-> t # <<>> /\ Head(t) = "[" /\ t[Len(t)] = "]",
             events |-> ToLower(t) = <<"[","e","v","e","n","t","s","]">>,
             format |-> HasPrefix(<<"f","o","r","m","a","t",":">>),
             dialogue |-> HasPrefix(<<"d","i","a","l","o","g","u","e",":">>)]]

HeaderAt(k) == LineKind[ass_lines_in[k]].header

EventsHeaderAt(k) == LineKind[ass_lines_in[k]].events

FormatAt(k) == LineKind[ass_lines_in[k]].format

DialogueAt(k) == LineKind[ass_lines_in[k]].dialogue

\* line k lies between an [Events] header and the next section header
InEventsAt(k) ==
    /\ ~HeaderAt(k)
    /\ \E h \in 1..(k - 1) :
          /\ EventsHeaderAt(h)
          /\ \A m \in (h + 1)..(k - 1) : ~HeaderAt(m)

\* a Format line has been seen inside an [Events] section before line k
FormatSeenBefore(k) == \E f \in 1..(k - 1) : InEventsAt(f) /\ FormatAt(f)

\* the lines with a Dialogue line inside [Events] and no Format line before
Unformatted ==
    {k \in DOMAIN ass_lines_in : InEventsAt(k) /\ DialogueAt(k) /\ ~FormatSeenBefore(k)}

\* the file with every line outside [Events] that is not a header blanked
OutsideBlanked ==
    Join([k \in DOMAIN ass_lines_in |->
            IF InEventsAt(k) \/ HeaderAt(k) THEN ass_lines_in[k] ELSE <<>>], <<"\n">>)

\* C10: only lines between an [Events] header and the next section header
\* are processed: a Dialogue line outside [Events] gives no entry and no
\* error, and the first Dialogue line inside [Events] with no Format line seen
\* inside an [Events] section before it aborts parsing with SubtitleParse, its
\* 1-based line number and the message "Dialogue line before Format line".
C10_OnlyEventsDialogueNeedsFormat ==
    /\ Len(ass_entries) <= Cardinality({k \in 1..line_num : InEventsAt(k) /\ DialogueAt(k)})
    /\ ass_pc = "done" =>
          /\ ass_ret = ass_parse_str(OutsideBlanked)
          /\ (\A k \in DOMAIN ass_lines_in : DialogueAt(k) => ~InEventsAt(k))
                => ass_ret = OkEntries(<<>>)
          /\ Unformatted # {} =>
                \E k \in Unformatted :
                    /\ \A m \in Unformatted : k <= m
                    /\ ass_ret.kind = "SubtitleParse"
                    /\ ass_ret.line = k
                    /\ ass_ret.message = "Dialogue line before Format line"
                    /\ ass_ret.entries = <<>>
          /\ Unformatted = {} => ass_ret.message # "Dialogue line before Format line"

\* C10 witness: a Format line outside [Events], then [Events] and a Dialogue
\* line on line 4: the parser reports line 4.
C10_Witness ==
    /\ ass_pc = "done"
    /\ Len(ass_lines_in) = 4
    /\ ~InEventsAt(2) /\ FormatAt(2)
    /\ EventsHeaderAt(3)
    /\ DialogueAt(4) /\ InEventsAt(4)
    /\ ass_ret = SubtitleParse(4, "Dialogue line before Format line")

\* C10 witness of the other case: a Dialogue line after the [Events] section
\* has ended gives no entry and no error.
C10_WitnessOutside ==
    /\ ass_pc = "done"
    /\ \E k \in DOMAIN ass_lines_in : DialogueAt(k) /\ ~InEventsAt(k) /\ FormatSeenBefore(k)
    /\ ass_ret = OkEntries(<<>>)

\* the fields a Format line declares, by name
DeclaredFields(format_line) ==
    LET parts == Split(AfterColon(Trim(format_line)), <<",">>)
    IN  [i \in DOMAIN parts |-> ToLower(Trim(parts[i]))]

\* the Format line names no Text field, or its last Text field is its last field
TextIsLast(format_line) ==
    LET declared == DeclaredFields(format_line)
    IN  (\E i \in DOMAIN declared : declared[i] = <<"t","e","x","t">>)
            => declared[Len(declared)] = <<"t","e","x","t">>

\* the position of the field the text is read from
TextPosition(format_line) ==
    LET declared == DeclaredFields(format_line)
        named == {i \in DOMAIN declared : declared[i] = <<"t","e","x","t">>}
    IN  IF named = {} THEN Len(declared) ELSE CHOOSE i \in named : \A j \in named : j <= i

\* what follows the first n - 1 comma-separated fields of a Dialogue line
RemainderOf(dialogue_line, n) ==
    LET parts == Split(Trim(AfterColon(Trim(dialogue_line))), <<",">>)
    IN  IF Len(parts) < n THEN <<>> ELSE Join(SubSeq(parts, n, Len(parts)), <<",">>)

\* comma-separated field number k of a Dialogue line
SingleField(dialogue_line, k) ==
    LET parts == Split(Trim(AfterColon(Trim(dialogue_line))), <<",">>)
    IN  IF Len(parts) < k THEN <<>> ELSE parts[k]

\* the \N and \n escapes turned into line breaks
Unescaped(text) == Replace(Replace(text, <<"\\","N">>, <<"\n">>), <<"\\","n">>, <<"\n">>)

FieldCount(dialogue_line) == Len(Split(Trim(AfterColon(Trim(dialogue_line))), <<",">>))

\* line k is a Dialogue line with fewer fields than the Format line declares
ShortDialogueAt(k) ==
    /\ k >= 3
    /\ FieldCount(ass_lines_in[k]) < Len(DeclaredFields(ass_lines_in[2]))

\* the file with every short Dialogue line blanked
ShortBlanked ==
    Join([k \in DOMAIN ass_lines_in |->
            IF ShortDialogueAt(k) THEN <<>> ELSE ass_lines_in[k]], <<"\n">>)

\* C26: a Dialogue line with fewer comma-separated fields than the Format
\* line declares is skipped silently, no entry and no error, and parsing of
\* the rest of the file continues: the parser returns what it returns for the
\* file without these lines.
C26_ShortDialogueSkipped ==
    ass_pc = "done" => ass_ret = ass_parse_str(ShortBlanked)

\* under "Format: Start, End, Text" the line "Dialogue: 0:00:05.00,0:00:06.00"
\* of two fields gives an entry with an empty text
C26_ShortDialogueGivesEntry ==
    /\ ass_pc = "done"
    /\ ass_lines_in = <<AssLinePool[1], FormatLinePool[2], DialogueLinePool[4]>>
    /\ ShortDialogueAt(3)
    /\ ass_ret = OkEntries(<<SubtitleEntry(1, 5000, 6000, <<>>)>>)

\* under "Format: Layer, Start, End, Text" the same line aborts the parsing,
\* and the good line after it is never read
C26_ShortDialogueAborts ==
    /\ ass_pc = "done"
    /\ ass_lines_in = <<AssLinePool[1], FormatLinePool[1], DialogueLinePool[4], DialogueLinePool[2]>>
    /\ ShortDialogueAt(3)
    /\ ass_ret = SubtitleParse(3, "Invalid end timestamp")

\* C30: the ASS parser never reads a Dialogue field outside the list it
\* split: for every Format line it accepts, the start, end and text indices
\* are smaller than total_fields, also when the Format line declares fewer
\* than three fields or omits the Start or End name, and no Dialogue line
\* makes the parser panic.
C30_IndicesWithinFields ==
    /\ format_indices.some =>
          /\ format_indices.start < format_indices.total_fields
          /\ format_indices.end < format_indices.total_fields
          /\ format_indices.text < format_indices.total_fields
    /\ ass_ret # Panic

\* "Format: Text" declares one field and leaves start at 1 and end at 2; the
\* Dialogue line after it is split into one field, and fields[1] panics
C30_FormatTextPanics ==
    /\ ass_pc = "done"
    /\ ass_lines_in = <<AssLinePool[1], FormatLinePool[5], DialogueLinePool[1]>>
    /\ format_indices = [some |-> TRUE, start |-> 1, end |-> 2, text |-> 0, total_fields |-> 1]
    /\ ass_ret = Panic

\* the text index alone is always inside the list
C30_TextIndexWithinFields ==
    format_indices.some => format_indices.text < format_indices.total_fields


(***************************************************************************)
(* The timestamp parsers (subtitle/types.rs).                              *)
(***************************************************************************)
\* a parser that has not returned yet
NotCalled == [ok |-> FALSE, ms |-> -1]

\* the parser of a format
parse_timestamp(format, token) ==
    IF format = "srt" THEN parse_srt(token)
    ELSE IF format = "ass" THEN parse_ass(token)
    ELSE parse_vtt(token)

\* Fields of timestamp tokens: in range, at the limit, one above it, not a number.
HoursPool == {<<"1">>, <<"0","1">>, <<"2","3">>, <<"2","4">>, <<"x">>}

MinutesPool == {<<"0","0">>, <<"2","3">>, <<"5","9">>, <<"6","0">>, <<"+","5">>, <<>>}

SecondsPool == {<<"0","0">>, <<"4","5">>, <<"6","0">>, <<"6","1">>}

SubSecondPool == {<<"0">>, <<"6","7">>, <<"9","9">>, <<"1","0","0">>, <<"6","7","8">>, <<"9","9","9">>, <<"1","0","0","0">>}

SubSecondSeparators == {",", ".", ":"}

\* Tokens of four fields, of three fields, and padded with spaces.
TokenPool ==
    LET short == {m \o <<":">> \o sec \o <<sep>> \o sub :
                      m \in MinutesPool, sec \in SecondsPool,
                      sep \in SubSecondSeparators, sub \in SubSecondPool}
        long == {h \o <<":">> \o t : h \in HoursPool, t \in short}
    IN  short \cup long
          \cup {<<" ">> \o <<"0","1",":","2","3",":","4","5",",","6","7","8">> \o <<" ">>,
                <<" ">> \o <<"1",":","2","3",":","4","5",".","6","7">>,
                <<"0",":","0","1",":","2","3",":","4","5",".","6","7","8">>, <<"4","5",".","6","7","8">>, <<>>}

TimestampInit ==
    /\ ts_format \in {"srt", "ass", "vtt"}
    /\ ts_token \in TokenPool
    /\ ts_ret = NotCalled

\* a call of Timestamp::parse_srt, parse_ass or parse_vtt
ParseTimestamp ==
    /\ ts_ret = NotCalled
    /\ ts_ret' = parse_timestamp(ts_format, ts_token)
    /\ UNCHANGED <<ts_format, ts_token>>
    /\ UNCHANGED notTimestamp

TimestampNext == ParseTimestamp

(***************************************************************************)
(* Claims about the timestamp parsers, stated over the fields of the token *)
(* between its separators.                                                 *)
(***************************************************************************)
\* the characters that separate the fields of a format's tokens
SeparatorsOf(format) == IF format = "srt" THEN {":", ","} ELSE {":", "."}

\* the largest sub-second field of a format: centiseconds for ASS
MaxSubSecond(format) == IF format = "ass" THEN 99 ELSE 999

\* milliseconds per sub-second unit
UnitMillis(format) == IF format = "ass" THEN 10 ELSE 1

TokenFields(format, token) == SplitOn(Trim(token), SeparatorsOf(format))

\* the number a numeric field stands for
NumberOf(field) ==
    LET digits == IF Head(field) = "+" THEN Tail(field) ELSE field
    IN  Decimal(digits, 1, Len(digits))

\* the numbers of the token's fields, hours first, when all are numeric
FieldNumbers(format, token) ==
    LET fields == TokenFields(format, token)
    IN  [i \in DOMAIN fields |->
            IF IsUnsignedInteger(fields[i]) THEN NumberOf(fields[i]) ELSE -1]

\* what C13 says parse_srt and parse_ass return
AsClaimed(format, token) ==
    LET n == FieldNumbers(format, token)
    IN  IF /\ Len(n) = 4
           /\ \A i \in 1..4 : n[i] >= 0
           /\ n[1] <= 23 /\ n[2] <= 59 /\ n[3] <= 60 /\ n[4] <= MaxSubSecond(format)
        THEN [ok |-> TRUE,
              ms |-> n[1] * 3600000 + n[2] * 60000 + n[3] * 1000 + n[4] * UnitMillis(format)]
        ELSE [ok |-> FALSE, ms |-> 0]

\* C13: parse_srt accepts a token exactly when it has four numeric fields
\* with hours <= 23, minutes <= 59, seconds <= 60 and millis <= 999, and
\* returns hours*3600000 + minutes*60000 + seconds*1000 + millis; parse_ass
\* does the same with centiseconds <= 99 counting 10 ms each; every other
\* token yields InvalidTimestamp.
C13_SrtAssAcceptExactlyInRange ==
    (ts_ret # NotCalled /\ ts_format \in {"srt", "ass"}) =>
        ts_ret = AsClaimed(ts_format, ts_token)

\* C13 witness: parse_ass("1:23:45.67") has returned 5025670 ms.
C13_Witness ==
    /\ ts_format = "ass"
    /\ ts_token = <<"1",":","2","3",":","4","5",".","6","7">>
    /\ ts_ret = [ok |-> TRUE, ms |-> 5025670]

\* C13 witness of the other parser: parse_srt("01:23:45,678") = 5025678 ms.
C13_WitnessSrt ==
    /\ ts_format = "srt"
    /\ ts_token = <<"0","1",":","2","3",":","4","5",",","6","7","8">>
    /\ ts_ret = [ok |-> TRUE, ms |-> 5025678]

\* the token has numeric fields of which the minutes, the seconds or the
\* sub-second field is out of range
OutOfRange(format, token) ==
    LET n == FieldNumbers(format, token)
        k == Len(n)
    IN  /\ k = 4 \/ (format = "vtt" /\ k = 3)
        /\ \A i \in 1..k : n[i] >= 0
        /\ n[k - 2] > 59 \/ n[k - 1] > 60 \/ n[k] > MaxSubSecond(format)

\* C14: every timestamp parser rejects a token with minutes > 59, seconds > 60
\* or a sub-second field above its format's maximum with InvalidTimestamp.
C14_EveryParserChecksRanges ==
    (ts_ret # NotCalled /\ OutOfRange(ts_format, ts_token)) => ~ts_ret.ok

\* parse_vtt("60:61.1000") has returned a Timestamp, 3662000 ms.
C14_VttOutOfRangeAccepted ==
    /\ ts_format = "vtt"
    /\ ts_token = <<"6","0",":","6","1",".","1","0","0","0">>
    /\ ts_ret = [ok |-> TRUE, ms |-> 3662000]

(***************************************************************************)
(* Claims about the three parsers together.                                *)
(***************************************************************************)
\* the SRT blocks of the file that are not skipped, in file order
RECURSIVE WellFormedOf(_)
WellFormedOf(blocks) ==
    IF blocks = <<>> THEN <<>>
    ELSE IF SrtMalformed[Head(blocks)] THEN WellFormedOf(Tail(blocks))
    ELSE <<Head(blocks)>> \o WellFormedOf(Tail(blocks))

\* the index an SRT block declares in its first line
DeclaredIndex(block) == NumberOf(Trim(BlockLines(block)[1]))

\* the k-th entry has index k
CountedFromOne(entries) == \A k \in DOMAIN entries : entries[k].index = k

\* C15 as stated: for each of the three parsers the k-th returned entry has
\* index k.
C15_IndicesCountFromOne ==
    /\ parse_ret.kind = "Ok" => CountedFromOne(parse_ret.entries)
    /\ CountedFromOne(ass_entries)
    /\ ass_ret.kind = "Ok" => CountedFromOne(ass_ret.entries)

\* C15 amended: the ASS and WebVTT parsers number the entries they return
\* 1, 2, ..., n in file order; the k-th entry the SRT parser returns comes
\* from the k-th block it does not skip and carries the index that block
\* declares in its first line.
C15_CountedOrDeclaredIndices ==
    /\ (parse_ret.kind = "Ok" /\ sub_format = "vtt") => CountedFromOne(parse_ret.entries)
    /\ (parse_ret.kind = "Ok" /\ sub_format = "srt") =>
          LET kept == WellFormedOf(blocks_in)
          IN  /\ Len(parse_ret.entries) = Len(kept)
              /\ \A k \in DOMAIN kept : parse_ret.entries[k].index = DeclaredIndex(kept[k])
    /\ CountedFromOne(ass_entries)
    /\ ass_ret.kind = "Ok" => CountedFromOne(ass_ret.entries)

\* C15 witness: the SRT blocks numbered 2 and 6 come back as two entries
\* with the indices 2 and 6.
C15_Witness ==
    /\ sub_format = "srt"
    /\ blocks_in = <<SrtBlockPool[2], SrtBlockPool[3]>>
    /\ parse_ret.kind = "Ok"
    /\ Len(parse_ret.entries) = 2
    /\ parse_ret.entries[1].index = 2
    /\ parse_ret.entries[2].index = 6

\* C15 witnesses of the counting parsers: two entries numbered 1 and 2, in a
\* WebVTT file whose first block is skipped and in an ASS file.
C15_WitnessVtt ==
    /\ sub_format = "vtt"
    /\ blocks_in = <<VttBlockPool[1], VttBlockPool[5]>>
    /\ parse_ret.kind = "Ok"
    /\ Len(parse_ret.entries) = 1
    /\ parse_ret.entries[1].index = 1

C15_WitnessAss ==
    /\ ass_ret.kind = "Ok"
    /\ Len(ass_ret.entries) = 2
    /\ ass_ret.entries[2].index = 2

(***************************************************************************)
(* Frame extraction.                                                       *)
(***************************************************************************)
\* subtitle/types.rs: SubtitleEntry::midpoint
midpoint_Start(entry) == entry.start
midpoint(entry) == (entry.start + entry.end) \div 2

\* Entries the subtitle parsers may have produced; the first two share a midpoint.
EntryPool ==
    << [start |-> 0,    end |-> 2000],
       [start |-> 500,  end |-> 1501],
       [start |-> 3000, end |-> 5000] >>

\* Entry lists: the pool entries at increasing pool positions.
EntryLists ==
    { s \in SeqsUpTo(1..Len(EntryPool), Min2(MaxTasks, Len(EntryPool))) :
        \A i \in 1..(Len(s) - 1) : s[i] < s[i + 1] }

EntriesOf(s) == [i \in 1..Len(s) |-> EntryPool[s[i]]]

\* Scanner::scan returns episodes with distinct, ascending ids.
EpisodeIdsInOrder == << <<1, 1>>, <<1, 2>> >>

TotalEntries(eps) ==
    LET RECURSIVE Sum(_)
        Sum(k) == IF k = 0 THEN 0 ELSE Len(eps[k].entries) + Sum(k - 1)
    IN  Sum(Len(eps))

Scenarios ==
    LET one == { <<[id |-> EpisodeIdsInOrder[1], entries |-> EntriesOf(s)]>> :
                    s \in EntryLists }
        two == { <<[id |-> EpisodeIdsInOrder[1], entries |-> EntriesOf(s)],
                   [id |-> EpisodeIdsInOrder[2], entries |-> EntriesOf(t)]>> :
                    s \in EntryLists, t \in EntryLists }
    IN  { eps \in one \cup two : TotalEntries(eps) \in 1..MaxTasks }

VideoPath(id) == <<"video", id>>

\* extract_frames, lines 82-85 and 100-105: the output paths of an entry
FramePath_Shared(id, ts) == <<"img", "frames", <<1, 1>>, ts>>
FramePath(id, ts) == <<"img", "frames", id, ts>>
ThumbPath(id, ts) == <<"img", "thumbs", id, ts>>

\* extract_frames, lines 96-110: one task per entry, keyed by the midpoint
BuildTasks(ep, tw) ==
    [i \in 1..Len(ep.entries) |->
        [video_path  |-> VideoPath(ep.id),
         timestamp   |-> midpoint(ep.entries[i]),
         frame_path  |-> FramePath(ep.id, midpoint(ep.entries[i])),
         thumb_path  |-> ThumbPath(ep.id, midpoint(ep.entries[i])),
         thumb_width |-> tw]]

\* extract_frames, lines 82-85: the directory names as text
DirectoryText ==
    [img |-> <<"i","m","g">>, frames |-> <<"f","r","a","m","e","s">>,
     thumbs |-> <<"t","h","u","m","b","s">>]

\* extract_frames, lines 82-85 and 100-105: the path of a task's file below
\* the output root, written with "/": img, frames or thumbs, the id's
\* to_string() and format!("{}.jpg", timestamp.0)
RelativeText(path) ==
    Join(<<DirectoryText[path[1]], DirectoryText[path[2]],
           to_string([season |-> path[3][1], episode |-> path[3][2]]),
           ToDecimal(path[4]) \o <<".","j","p","g">> >>, <<"/">>)

\* indexer/search.rs build_index, lines 88-105: the entries of one episode
SearchEntries(ep) ==
    LET episode_id == to_string([season |-> ep.id[1], episode |-> ep.id[2]])
    IN  [i \in 1..Len(ep.entries) |->
            LET timestamp == midpoint(ep.entries[i])
            IN  [id |-> episode_id \o <<"-">> \o ToDecimal(timestamp),
                 episode |-> episode_id,
                 timestamp |-> timestamp,
                 frame |-> <<"i","m","g","/","f","r","a","m","e","s","/">> \o episode_id \o <<"/">>
                              \o ToDecimal(timestamp) \o <<".","j","p","g">>,
                 thumb |-> <<"i","m","g","/","t","h","u","m","b","s","/">> \o episode_id \o <<"/">>
                              \o ToDecimal(timestamp) \o <<".","j","p","g">>]]

\* indexer/search.rs build_index: the entries of all episodes, in order
RECURSIVE build_index(_)
build_index(eps) ==
    IF eps = <<>> THEN <<>> ELSE SearchEntries(Head(eps)) \o build_index(Tail(eps))

\* Path::exists
Exists(path) == path \in files

\* execute, line 169
BothExistAlways(task) == FALSE
BothExist_FrameOnly(task) == Exists(task.frame_path)
BothExist(task) == Exists(task.frame_path) /\ Exists(task.thumb_path)

\* execute, line 176
FrameNeededAlways(task) == TRUE
FrameNeeded(task) == ~Exists(task.frame_path)

\* execute, lines 205-207 (thumb_path is never empty in extract_frames)
ThumbNeededAlways(task) == TRUE
ThumbNeeded(task) == task.thumb_width > 0 /\ ~Exists(task.thumb_path)

OkResult == [kind |-> "Ok"]

\* execute, lines 192 and 226: Command::output() failed
SpawnError == [kind |-> "Ffmpeg", message |-> "io error"]

\* execute, lines 196-200 and 230-234
FrameExtractionError_NoTimestamp(task, what) ==
    [kind |-> "FrameExtraction", video |-> task.video_path, timestamp |-> 0,
     message |-> <<"stderr">>]
FrameExtractionError(task, what) ==
    [kind      |-> "FrameExtraction",
     video     |-> task.video_path,
     timestamp |-> task.timestamp,
     message   |-> IF what = "thumb" THEN <<"thumbnail: ", "stderr">>
                                     ELSE <<"stderr">>]

IsErr(r) == r.kind \notin {"None", "Ok"}

InFlight == {t \in DOMAIN tasks : pc[t] \notin {"idle", "done"}}

\* extract_frames, lines 128-132: the first error in task order, else Ok
CollectAlwaysOk(results) == OkResult
Collect_LastError(results) ==
    IF \E t \in DOMAIN results : IsErr(results[t])
    THEN results[CHOOSE t \in DOMAIN results :
                    /\ IsErr(results[t])
                    /\ \A u \in DOMAIN results : IsErr(results[u]) => u <= t]
    ELSE OkResult
Collect(results) ==
    IF \E t \in DOMAIN results : IsErr(results[t])
    THEN results[CHOOSE t \in DOMAIN results :
                    /\ IsErr(results[t])
                    /\ \A u \in DOMAIN results : IsErr(results[u]) => t <= u]
    ELSE OkResult

ExtractInit ==
    /\ all_entries \in Scenarios
    /\ thumb_width \in {0, 320}
    /\ jobs \in {NoJobs, 1}
    /\ files = {}
    /\ pool_threads = 0
    /\ gen_pc = "start"
    /\ ep_idx = 0
    /\ ef_pc = "idle"
    /\ tasks = <<>>
    /\ pc = <<>>
    /\ result = <<>>
    /\ invoked = <<>>
    /\ both_at_start = <<>>
    /\ full_at_begin = FALSE
    /\ late_starts = {}
    /\ progress = 0
    /\ ef_ret = NoResult

\* cli/commands.rs generate, lines 86-102: a run of the program begins; the
\* output tree is whatever earlier runs left, the pool and the bar are new.
GenerateStart ==
    /\ gen_pc \in {"start", "ok", "err"}
    /\ gen_pc' = "loop"
    /\ ep_idx' = 1
    /\ pool_threads' = 0
    /\ progress' = 0
    /\ ef_pc' = "idle"
    /\ ef_ret' = NoResult
    /\ tasks' = <<>>
    /\ pc' = <<>>
    /\ result' = <<>>
    /\ invoked' = <<>>
    /\ both_at_start' = <<>>
    /\ full_at_begin' = FALSE
    /\ late_starts' = {}
    /\ UNCHANGED <<all_entries, thumb_width, jobs, files>>
    /\ UNCHANGED notExtract

\* extract_frames, lines 80-117: check_ffmpeg, the directories, the tasks, the pool
ExtractFramesBegin ==
    /\ gen_pc = "loop"
    /\ ef_pc = "idle"
    /\ \E outcome \in {"ok", "no_ffmpeg", "dir_error"} :
        IF outcome = "ok"
        THEN LET batch == BuildTasks(all_entries[ep_idx], thumb_width)
             IN  /\ tasks' = batch
                 /\ pc' = [t \in DOMAIN batch |-> "idle"]
                 /\ result' = [t \in DOMAIN batch |-> NoResult]
                 /\ invoked' = [t \in DOMAIN batch |-> <<>>]
                 /\ both_at_start' = [t \in DOMAIN batch |-> "unknown"]
                 /\ full_at_begin' = \A t \in DOMAIN batch : BothExist(batch[t])
                 /\ pool_threads' =
                        IF pool_threads # 0 THEN pool_threads
                        ELSE IF jobs = NoJobs THEN DefaultThreads ELSE jobs
                 /\ ef_pc' = "running"
                 /\ ef_ret' = NoResult
        ELSE /\ ef_pc' = "returned"
             /\ ef_ret' = [kind |-> IF outcome = "no_ffmpeg" THEN "FfmpegNotFound"
                                                            ELSE "OutputDir"]
             /\ tasks' = <<>>
             /\ pc' = <<>>
             /\ result' = <<>>
             /\ invoked' = <<>>
             /\ both_at_start' = <<>>
             /\ full_at_begin' = FALSE
             /\ UNCHANGED pool_threads
    /\ late_starts' = {}
    /\ UNCHANGED <<all_entries, thumb_width, jobs, files, gen_pc, ep_idx, progress>>
    /\ UNCHANGED notExtract

\* A pool worker takes a task and runs execute up to its first check (line 169).
TaskStart(t) ==
    /\ ef_pc = "running"
    /\ pc[t] = "idle"
    /\ Cardinality(InFlight) < pool_threads
    /\ late_starts' = IF \E u \in DOMAIN tasks : IsErr(result[u])
                      THEN late_starts \cup {t} ELSE late_starts
    /\ both_at_start' = [both_at_start EXCEPT ![t] =
                            IF BothExist(tasks[t]) THEN "yes" ELSE "no"]
    /\ IF BothExist(tasks[t])
       THEN /\ pc' = [pc EXCEPT ![t] = "finish"]
            /\ result' = [result EXCEPT ![t] = OkResult]
       ELSE /\ pc' = [pc EXCEPT ![t] = "frame"]
            /\ UNCHANGED result
    /\ UNCHANGED <<all_entries, thumb_width, jobs, files, pool_threads, gen_pc,
                   ep_idx, ef_pc, tasks, invoked, full_at_begin, progress, ef_ret>>
    /\ UNCHANGED notExtract

\* execute, lines 176-192: the frame check, and the spawn of the tool
FrameSpawn(t) ==
    /\ ef_pc = "running"
    /\ pc[t] = "frame"
    /\ IF FrameNeeded(tasks[t])
       THEN /\ invoked' = [invoked EXCEPT ![t] =
                    Append(@, [file |-> tasks[t].frame_path, what |-> "frame",
                               existed |-> Exists(tasks[t].frame_path)])]
            /\ \E spawned \in BOOLEAN :
                IF spawned
                THEN pc' = [pc EXCEPT ![t] = "frame_wait"] /\ UNCHANGED result
                ELSE /\ pc' = [pc EXCEPT ![t] = "finish"]
                     /\ result' = [result EXCEPT ![t] = SpawnError]
       ELSE /\ pc' = [pc EXCEPT ![t] = "thumb"]
            /\ UNCHANGED <<invoked, result>>
    /\ UNCHANGED <<all_entries, thumb_width, jobs, files, pool_threads, gen_pc,
                   ep_idx, ef_pc, tasks, both_at_start, full_at_begin, late_starts, progress,
                   ef_ret>>
    /\ UNCHANGED notExtract

\* execute, lines 194-201: the tool exits; on success it has written the frame
FrameExit(t) ==
    /\ ef_pc = "running"
    /\ pc[t] = "frame_wait"
    /\ \E success \in BOOLEAN :
        IF success
        THEN /\ files' = files \cup {tasks[t].frame_path}
             /\ pc' = [pc EXCEPT ![t] = "thumb"]
             /\ UNCHANGED result
        ELSE /\ pc' = [pc EXCEPT ![t] = "finish"]
             /\ result' = [result EXCEPT ![t] = FrameExtractionError(tasks[t], "frame")]
             /\ UNCHANGED files
    /\ UNCHANGED <<all_entries, thumb_width, jobs, pool_threads, gen_pc, ep_idx,
                   ef_pc, tasks, invoked, both_at_start, full_at_begin, late_starts, progress,
                   ef_ret>>
    /\ UNCHANGED notExtract

\* execute, lines 205-226: the thumbnail check, and the spawn of the tool
ThumbSpawn(t) ==
    /\ ef_pc = "running"
    /\ pc[t] = "thumb"
    /\ IF ThumbNeeded(tasks[t])
       THEN /\ invoked' = [invoked EXCEPT ![t] =
                    Append(@, [file |-> tasks[t].thumb_path, what |-> "thumb",
                               existed |-> Exists(tasks[t].thumb_path)])]
            /\ \E spawned \in BOOLEAN :
                IF spawned
                THEN pc' = [pc EXCEPT ![t] = "thumb_wait"] /\ UNCHANGED result
                ELSE /\ pc' = [pc EXCEPT ![t] = "finish"]
                     /\ result' = [result EXCEPT ![t] = SpawnError]
       ELSE /\ pc' = [pc EXCEPT ![t] = "finish"]
            /\ result' = [result EXCEPT ![t] = OkResult]
            /\ UNCHANGED invoked
    /\ UNCHANGED <<all_entries, thumb_width, jobs, files, pool_threads, gen_pc,
                   ep_idx, ef_pc, tasks, both_at_start, full_at_begin, late_starts, progress,
                   ef_ret>>
    /\ UNCHANGED notExtract

\* execute, lines 228-238: the tool exits; on success it has written the thumbnail
ThumbExit(t) ==
    /\ ef_pc = "running"
    /\ pc[t] = "thumb_wait"
    /\ \E success \in BOOLEAN :
        IF success
        THEN /\ files' = files \cup {tasks[t].thumb_path}
             /\ result' = [result EXCEPT ![t] = OkResult]
        ELSE /\ result' = [result EXCEPT ![t] = FrameExtractionError(tasks[t], "thumb")]
             /\ UNCHANGED files
    /\ pc' = [pc EXCEPT ![t] = "finish"]
    /\ UNCHANGED <<all_entries, thumb_width, jobs, pool_threads, gen_pc, ep_idx,
                   ef_pc, tasks, invoked, both_at_start, full_at_begin, late_starts, progress,
                   ef_ret>>
    /\ UNCHANGED notExtract

\* indicatif's ProgressBar::inc: an atomic fetch_add on the bar's position
ProgressBar_inc_Store(pos, delta) == delta
ProgressBar_inc(pos, delta) == pos + delta

\* extract_frames, lines 122-124: execute has returned; progress.inc(1)
TaskFinish(t) ==
    /\ ef_pc = "running"
    /\ pc[t] = "finish"
    /\ pc' = [pc EXCEPT ![t] = "done"]
    /\ progress' = ProgressBar_inc(progress, 1)
    /\ UNCHANGED <<all_entries, thumb_width, jobs, files, pool_threads, gen_pc,
                   ep_idx, ef_pc, tasks, result, invoked, both_at_start,
                   full_at_begin, late_starts, ef_ret>>
    /\ UNCHANGED notExtract

\* extract_frames, lines 126-132: collect() has every result; return the first error
ExtractFramesReturn ==
    /\ ef_pc = "running"
    /\ \A t \in DOMAIN tasks : pc[t] = "done"
    /\ ef_pc' = "returned"
    /\ ef_ret' = Collect(result)
    /\ UNCHANGED <<all_entries, thumb_width, jobs, files, pool_threads, gen_pc,
                   ep_idx, tasks, pc, result, invoked, both_at_start,
                   full_at_begin, late_starts, progress>>
    /\ UNCHANGED notExtract

\* generate, lines 102-109: `?` on the call's result, then the next episode
GenerateNext ==
    /\ gen_pc = "loop"
    /\ ef_pc = "returned"
    /\ IF IsErr(ef_ret)
       THEN gen_pc' = "err" /\ UNCHANGED <<ep_idx, ef_pc>>
       ELSE IF ep_idx = Len(all_entries)
            THEN gen_pc' = "ok" /\ UNCHANGED <<ep_idx, ef_pc>>
            ELSE /\ ep_idx' = ep_idx + 1
                 /\ ef_pc' = "idle"
                 /\ UNCHANGED gen_pc
    /\ UNCHANGED <<all_entries, thumb_width, jobs, files, pool_threads, tasks, pc,
                   result, invoked, both_at_start, full_at_begin, late_starts, progress, ef_ret>>
    /\ UNCHANGED notExtract

ExtractNext ==
    \/ GenerateStart
    \/ ExtractFramesBegin
    \/ \E t \in DOMAIN tasks : TaskStart(t)
    \/ \E t \in DOMAIN tasks : FrameSpawn(t)
    \/ \E t \in DOMAIN tasks : FrameExit(t)
    \/ \E t \in DOMAIN tasks : ThumbSpawn(t)
    \/ \E t \in DOMAIN tasks : ThumbExit(t)
    \/ \E t \in DOMAIN tasks : TaskFinish(t)
    \/ ExtractFramesReturn
    \/ GenerateNext


(***************************************************************************)
(* Claims about frame extraction.                                          *)
(***************************************************************************)
\* C1: execute invokes the tool only for an output that did not exist when it
\* was checked, at most once per file and the frame before the thumbnail; a task
\* that found both files makes no invocation and returns Ok; a batch begun with
\* every output present makes no invocation at all.
C1_ExecuteSkipsExisting ==
    /\ \A t \in DOMAIN tasks :
        /\ \A i \in DOMAIN invoked[t] : ~invoked[t][i].existed
        /\ \A i, j \in DOMAIN invoked[t] :
              i # j => invoked[t][i].file # invoked[t][j].file
        /\ \A i, j \in DOMAIN invoked[t] :
              (invoked[t][i].what = "frame" /\ invoked[t][j].what = "thumb") => i < j
        /\ both_at_start[t] = "yes" =>
              /\ invoked[t] = <<>>
              /\ pc[t] \in {"finish", "done"} /\ result[t] = OkResult
    /\ full_at_begin => \A t \in DOMAIN tasks : invoked[t] = <<>>

\* C1 witness: a second run over a fully extracted episode has returned.
C1_Witness ==
    /\ ef_pc = "returned"
    /\ full_at_begin
    /\ Len(tasks) >= 2
    /\ \A t \in DOMAIN tasks : both_at_start[t] = "yes" /\ pc[t] = "done"
    /\ ef_ret = OkResult

CarriesTaskAndOutput(r, task) ==
    /\ r.kind = "FrameExtraction"
    /\ r.video = task.video_path
    /\ r.timestamp = task.timestamp
    /\ \E i \in DOMAIN r.message : r.message[i] = "stderr"

\* C16 as stated: whatever made a task fail, a non-zero exit status of the
\* tool or a failure to invoke it, its error is a FrameExtraction error
\* carrying the video path, the timestamp and the captured output.
C16_EveryFailureIsFrameExtraction ==
    \A t \in DOMAIN tasks : IsErr(result[t]) => CarriesTaskAndOutput(result[t], tasks[t])

\* task t fails in this step
FailsNow(t) ==
    /\ t \in DOMAIN result /\ t \in DOMAIN result'
    /\ ~IsErr(result[t]) /\ IsErr(result'[t])

\* C16 amended: a task that fails while it waits for the tool to exit (a
\* non-zero exit status) fails with a FrameExtraction error carrying the video
\* path, the timestamp and the captured output; a task that fails at an
\* invocation (the process cannot be spawned) fails with an Ffmpeg error that
\* carries only the message of the I/O error.
C16_ExitStatusOrSpawnFailure ==
    [][\A t \in DOMAIN tasks :
          FailsNow(t) =>
              /\ pc[t] \in {"frame_wait", "thumb_wait"} =>
                    CarriesTaskAndOutput(result'[t], tasks[t])
              /\ pc[t] \in {"frame", "thumb"} =>
                    result'[t] = [kind |-> "Ffmpeg", message |-> "io error"]
              /\ pc[t] \in {"frame_wait", "thumb_wait", "frame", "thumb"}]_vars

\* C16 witness: in one batch the tool could not be spawned for one task and
\* exited with a failure for another.
C16_Witness ==
    /\ ef_pc = "returned"
    /\ \E t, u \in DOMAIN tasks :
          /\ result[t].kind = "Ffmpeg"
          /\ result[u].kind = "FrameExtraction"
          /\ result[u].timestamp = tasks[u].timestamp

\* what generate hands to SearchIndexer::build_index in each scenario
SearchIndexOf == [eps \in Scenarios |-> build_index(eps)]

\* the entries of the episodes before the k-th
EntriesBefore(eps, k) ==
    LET RECURSIVE Sum(_)
        Sum(j) == IF j = 0 THEN 0 ELSE Len(eps[j].entries) + Sum(j - 1)
    IN  Sum(k - 1)

\* <kind>/<SxxEyy>/<midpoint_ms>.jpg below img, the midpoint rounded down
SchemePath(kind, id, entry) ==
    <<"i","m","g","/">> \o kind \o <<"/","S">> \o Pad2(id[1]) \o <<"E">> \o Pad2(id[2])
        \o <<"/">> \o ToDecimal((entry.start + entry.end) \div 2) \o <<".","j","p","g">>

\* C17: the frame and thumbnail paths of the tasks extract_frames builds for
\* an episode are img/frames/<SxxEyy>/<midpoint_ms>.jpg and
\* img/thumbs/<SxxEyy>/<midpoint_ms>.jpg below the output root, and are the
\* paths the search index records for the same entries.
C17_TaskPathsAreIndexPaths ==
    ef_pc = "running" =>
        LET ep == all_entries[ep_idx]
            index == SearchIndexOf[all_entries]
            before == EntriesBefore(all_entries, ep_idx)
        IN  /\ Len(tasks) = Len(ep.entries)
            /\ Len(index) = TotalEntries(all_entries)
            /\ \A t \in DOMAIN tasks :
                  /\ RelativeText(tasks[t].frame_path) = index[before + t].frame
                  /\ RelativeText(tasks[t].thumb_path) = index[before + t].thumb
                  /\ index[before + t].frame = SchemePath(<<"f","r","a","m","e","s">>, ep.id, ep.entries[t])
                  /\ index[before + t].thumb = SchemePath(<<"t","h","u","m","b","s">>, ep.id, ep.entries[t])

\* C17 witness: the tasks of the second episode are running; the entry from
\* 500 ms to 1501 ms is extracted to, and indexed as, img/frames/S01E02/1000.jpg.
C17_Witness ==
    /\ ef_pc = "running"
    /\ ep_idx = 2
    /\ \E t \in DOMAIN tasks :
          /\ all_entries[2].entries[t] = [start |-> 500, end |-> 1501]
          /\ RelativeText(tasks[t].frame_path) = <<"i","m","g","/","f","r","a","m","e","s","/","S","0","1","E","0","2","/","1","0","0","0",".","j","p","g">>
          /\ \E k \in DOMAIN SearchIndexOf[all_entries] :
                /\ k > t
                /\ SearchIndexOf[all_entries][k].frame = <<"i","m","g","/","f","r","a","m","e","s","/","S","0","1","E","0","2","/","1","0","0","0",".","j","p","g">>

\* the episode a file of the output tree belongs to
EpisodeOfFile(path) == path[3]

\* the files the tool is asked to write in this step
WrittenNow ==
    UNION {{invoked'[t][i].file : i \in (Len(invoked[t]) + 1)..Len(invoked'[t])} :
              t \in DOMAIN invoked' \cap DOMAIN invoked}

\* task t is started in this step
StartsNow(t) == t \in DOMAIN pc /\ t \in DOMAIN pc' /\ pc[t] = "idle" /\ pc'[t] # "idle"

\* C18: episodes are processed strictly one after another: a task that
\* starts belongs to the episode generate is at, and generate moves to the
\* next episode only when every task of the current one has finished; and
\* whatever happens in episode k, a failure included, no file is removed and
\* the only files written are files of episode k.
C18_EpisodesInSequence ==
    [][/\ \A t \in DOMAIN tasks :
             StartsNow(t) => tasks[t].video_path = VideoPath(all_entries[ep_idx].id)
       /\ (gen_pc = "loop" /\ gen_pc' = "loop" /\ ep_idx' # ep_idx) =>
             /\ ep_idx' = ep_idx + 1
             /\ \A t \in DOMAIN tasks : pc[t] = "done"
       /\ files \subseteq files'
       /\ \A f \in WrittenNow \cup (files' \ files) :
             EpisodeOfFile(f) = all_entries[ep_idx].id]_vars

\* C18 witness: the run ended with a failure in the second episode, and
\* files of the first episode are in the output tree.
C18_Witness ==
    /\ gen_pc = "err"
    /\ ep_idx = 2
    /\ ef_ret.kind = "FrameExtraction"
    /\ \E f \in files : EpisodeOfFile(f) = all_entries[1].id /\ f[2] = "frames"
    /\ \E f \in files : EpisodeOfFile(f) = all_entries[1].id /\ f[2] = "thumbs"

\* two tasks of the batch that the tool is running on the same output file
SameFileAtOnce(t, u) ==
    \/ pc[t] = "frame_wait" /\ pc[u] = "frame_wait"
          /\ tasks[t].frame_path = tasks[u].frame_path
    \/ pc[t] = "thumb_wait" /\ pc[u] = "thumb_wait"
          /\ tasks[t].thumb_path = tasks[u].thumb_path

\* C22: within one episode's batch no two tasks share a frame_path or a
\* thumb_path, so no two workers ever have the external tool running on the
\* same output file at the same time.
C22_TaskOutputsDisjoint ==
    \A t, u \in DOMAIN tasks :
        t # u =>
            /\ tasks[t].frame_path # tasks[u].frame_path
            /\ tasks[t].thumb_path # tasks[u].thumb_path
            /\ ~SameFileAtOnce(t, u)

\* the entries 0..2000 and 500..1501 of one episode both have the midpoint
\* 1000: their tasks share both paths, and two workers have the tool writing
\* the same frame at once
C22_TwoWorkersOneFrame ==
    /\ ef_pc = "running"
    /\ Len(tasks) >= 2
    /\ all_entries[ep_idx].entries[1] = EntryPool[1]
    /\ all_entries[ep_idx].entries[2] = EntryPool[2]
    /\ tasks[1].frame_path = tasks[2].frame_path
    /\ pc[1] = "frame_wait" /\ pc[2] = "frame_wait"

\* the tasks of the batch whose closure has returned
Executed == {t \in DOMAIN tasks : pc[t] = "done"}

\* C23: each executed task increments the shared progress counter exactly
\* once, whether it succeeded, failed or was skipped as already done, and no
\* increment is lost: while a batch runs the counter stands at the entries of
\* the episodes before it plus the tasks executed so far, and when
\* extract_frames returns after running its batch the counter has grown by
\* exactly the number of tasks of the batch.
C23_ProgressCountsExecutedTasks ==
    (ef_pc \in {"running", "returned"} /\ tasks # <<>>) =>
        /\ progress = EntriesBefore(all_entries, ep_idx) + Cardinality(Executed)
        /\ ef_pc = "returned" =>
              progress = EntriesBefore(all_entries, ep_idx) + Len(tasks)

\* C23 witness: a batch of three tasks on two workers has returned: the first
\* task invoked the tool and succeeded, the second found both files and was
\* skipped, the third failed, and the counter stands at 3.
C23_Witness ==
    /\ ef_pc = "returned"
    /\ pool_threads = 2
    /\ Len(tasks) = 3
    /\ result[1] = OkResult /\ invoked[1] # <<>>
    /\ both_at_start[2] = "yes" /\ result[2] = OkResult
    /\ IsErr(result[3])
    /\ progress = 3

\* the failing tasks of the batch
Failed == {t \in DOMAIN tasks : IsErr(result[t])}

\* C27: the result of extract_frames does not depend on how the workers
\* interleave: it returns only after every task of the batch has finished,
\* returns Ok exactly when every task succeeded, and otherwise returns the
\* error of the failing task that comes first in subtitle-entry order, not
\* the one that failed first in time.
C27_ResultInEntryOrder ==
    (ef_pc = "returned" /\ tasks # <<>>) =>
        /\ \A t \in DOMAIN tasks : pc[t] = "done" /\ result[t] # NoResult
        /\ ef_ret = OkResult <=> Failed = {}
        /\ Failed # {} =>
              \E t \in Failed :
                  /\ \A u \in Failed : t <= u
                  /\ ef_ret = result[t]

\* C27 witness: of two tasks the second failed first, the first was started
\* after that and failed with another error, and extract_frames returned the
\* error of the first.
C27_Witness ==
    /\ ef_pc = "returned"
    /\ Len(tasks) = 2
    /\ 1 \in late_starts /\ 2 \notin late_starts
    /\ IsErr(result[1]) /\ IsErr(result[2])
    /\ result[1] # result[2]
    /\ ef_ret = result[1]

\* every entry of the run has its frame, and its thumbnail if thumbnails are made
AllOutputsIn(fs) ==
    \A k \in DOMAIN all_entries :
        \A i \in DOMAIN all_entries[k].entries :
            LET ts == midpoint(all_entries[k].entries[i])
            IN  /\ FramePath(all_entries[k].id, ts) \in fs
                /\ thumb_width > 0 => ThumbPath(all_entries[k].id, ts) \in fs

\* C29: whatever an earlier run left behind (frames or thumbnails missing, a
\* frame without its thumbnail), a run in which every tool invocation
\* succeeds ends with the frame and the thumbnail (thumb_width > 0) of every
\* entry present; the tool is invoked only for outputs that are missing, and
\* no file that exists is removed.
C29_RerunFillsTheGaps ==
    [][/\ \A f \in WrittenNow : f \notin files
       /\ files \subseteq files'
       /\ gen_pc' = "ok" => AllOutputsIn(files')]_vars

\* C29 witness: a run over one entry has ended well having invoked the tool
\* for the thumbnail alone: the frame was there from an earlier run that
\* failed at the thumbnail.
C29_Witness ==
    /\ gen_pc = "ok"
    /\ thumb_width > 0
    /\ Len(all_entries) = 1 /\ Len(all_entries[1].entries) = 1
    /\ Len(invoked[1]) = 1 /\ invoked[1][1].what = "thumb"
    /\ both_at_start[1] = "no"
    /\ AllOutputsIn(files)


(***************************************************************************)
(* The worker pool over the extract_frames calls of one process            *)
(* (extractor/ffmpeg.rs lines 112-126); the calls may come from            *)
(* FrameExtractor values built with different with_jobs arguments.         *)
(***************************************************************************)
\* FrameExtractor.jobs: None, or Some(n)
JobsPool ==
    {[some |-> FALSE, n |-> 0], [some |-> TRUE, n |-> 0],
     [some |-> TRUE, n |-> 1], [some |-> TRUE, n |-> 4]}

\* rayon's ThreadPoolBuilder::num_threads: 0 asks for the default size
PoolSize(n) == IF n = 0 THEN DefaultThreads ELSE n

\* rayon's ThreadPoolBuilder::build_global: builds the global pool if there is
\* none, else leaves it and returns Err(GlobalPoolAlreadyInitialized)
build_global_Rebuild(pool, n) == [pool |-> PoolSize(n), res |-> "Ok"]
build_global(pool, n) ==
    IF pool = 0 THEN [pool |-> PoolSize(n), res |-> "Ok"]
    ELSE [pool |-> pool, res |-> "GlobalPoolAlreadyInitialized"]

\* par_iter: the batch runs on the global pool, which rayon builds with the
\* default size at first use if it has not been built
UseGlobalPool(pool) == IF pool = 0 THEN DefaultThreads ELSE pool

PoolInit ==
    /\ global_pool = 0
    /\ pool_calls = <<>>

\* one call of extract_frames, lines 80-132: the early returns, then
\* `if let Some(num_jobs) = self.jobs { ...build_global().ok(); }`, whose
\* result is dropped, then the batch and its result
ExtractFramesCall ==
    /\ Len(pool_calls) < MaxCalls
    /\ \E j \in JobsPool, outcome \in {"ok", "task_failed", "no_ffmpeg", "dir_error"} :
        IF outcome \in {"no_ffmpeg", "dir_error"}
        THEN /\ pool_calls' = Append(pool_calls,
                    [jobs |-> j, outcome |-> outcome, built |-> "NotCalled",
                     size |-> global_pool,
                     ret |-> [kind |-> IF outcome = "no_ffmpeg" THEN "FfmpegNotFound"
                                                               ELSE "OutputDir"]])
             /\ UNCHANGED global_pool
        ELSE LET b == IF j.some THEN build_global(global_pool, j.n)
                      ELSE [pool |-> global_pool, res |-> "NotCalled"]
                 size == UseGlobalPool(b.pool)
             IN  /\ global_pool' = size
                 /\ pool_calls' = Append(pool_calls,
                        [jobs |-> j, outcome |-> outcome, built |-> b.res, size |-> size,
                         ret |-> [kind |-> IF outcome = "ok" THEN "Ok"
                                                             ELSE "FrameExtraction"]])
    /\ UNCHANGED notPool

PoolNext == ExtractFramesCall

\* the calls up to the k-th that got as far as the pool
ReachedPool(k) == {i \in 1..k : pool_calls[i].outcome \in {"ok", "task_failed"}}

\* the size the jobs value of a call asks for
AskedSize(j) == IF j.some /\ j.n # 0 THEN j.n ELSE DefaultThreads

\* C24: the worker pool size is configured at most once per process: the
\* first call that reaches the pool fixes the size, and a later extract_frames
\* call, even with a different jobs value, neither changes the size nor fails
\* because of it (a call fails only if the tool is missing, a directory cannot
\* be made or a task failed).
C24_PoolSizedOnce ==
    /\ global_pool = IF pool_calls = <<>> THEN 0 ELSE pool_calls[Len(pool_calls)].size
    /\ \A k \in DOMAIN pool_calls :
        /\ ReachedPool(k) = {} => pool_calls[k].size = 0
        /\ ReachedPool(k) # {} =>
              LET first == CHOOSE i \in ReachedPool(k) : \A m \in ReachedPool(k) : i <= m
              IN  pool_calls[k].size = AskedSize(pool_calls[first].jobs)
        /\ pool_calls[k].outcome = "ok" => pool_calls[k].ret.kind = "Ok"

\* C24 witness: a call with jobs 4 built a pool of 4; a call with jobs 1 found
\* the pool built, left it at 4 and returned Ok; so did a call without jobs.
C24_Witness ==
    /\ Len(pool_calls) = 3
    /\ pool_calls[1].jobs = [some |-> TRUE, n |-> 4] /\ pool_calls[1].built = "Ok"
    /\ pool_calls[2].jobs = [some |-> TRUE, n |-> 1]
    /\ pool_calls[2].built = "GlobalPoolAlreadyInitialized"
    /\ pool_calls[2].size = 4 /\ pool_calls[2].ret.kind = "Ok"
    /\ pool_calls[3].jobs = [some |-> FALSE, n |-> 0]
    /\ pool_calls[3].size = 4 /\ pool_calls[3].ret.kind = "Ok"
    /\ global_pool = 4

\* a first call without jobs builds the default pool, and a later call with
\* jobs 4 leaves it
C24_WitnessDefaultFirst ==
    /\ Len(pool_calls) = 2
    /\ pool_calls[1].jobs = [some |-> FALSE, n |-> 0] /\ pool_calls[1].size = DefaultThreads
    /\ pool_calls[2].jobs = [some |-> TRUE, n |-> 4]
    /\ pool_calls[2].built = "GlobalPoolAlreadyInitialized"
    /\ global_pool = DefaultThreads


(***************************************************************************)
(* The quality settings of the tool (extractor/ffmpeg.rs).                 *)
(***************************************************************************)
\* the values of a u8
U8 == 0..255

\* u8::clamp
Clamp(x, lo, hi) == IF x < lo THEN lo ELSE IF x > hi THEN hi ELSE x

\* FrameExtractor::new, line 33
DefaultQuality == 85

\* ExtractionTask::quality_to_qscale in hundredths: normalized is quality / 100
\* clamped to 0..1, qscale is 31 - normalized * 30, and f32::round rounds
\* halves away from zero.  The f32 operations give these values for every u8.
quality_to_qscale_Truncated(q) == (3100 - Clamp(q, 0, 100) * 30) \div 100
quality_to_qscale(q) ==
    LET normalized == Clamp(q, 0, 100)
        qscale == 3100 - normalized * 30
    IN  (qscale + 50) \div 100

\* execute, line 222: (self.quality_to_qscale() + 2).min(31)
ThumbSetting(q) == Min2(quality_to_qscale(q) + 2, 31)

QualityInit ==
    /\ quality_arg \in U8
    /\ quality = DefaultQuality
    /\ quality_pc = "new"
    /\ frame_qscale = 0
    /\ thumb_qscale = 0

\* FrameExtractor::with_quality
WithQuality ==
    /\ quality_pc = "new"
    /\ quality' = Clamp(quality_arg, 1, 100)
    /\ quality_pc' = "built"
    /\ UNCHANGED <<quality_arg, frame_qscale, thumb_qscale>>
    /\ UNCHANGED notQuality

\* execute, lines 177-191: the frame invocation of a task built by the
\* extractor generate made with new().with_quality(args.quality)
FrameInvocation ==
    /\ quality_pc = "built"
    /\ frame_qscale' = quality_to_qscale(quality)
    /\ quality_pc' = "frame"
    /\ UNCHANGED <<quality_arg, quality, thumb_qscale>>
    /\ UNCHANGED notQuality

\* execute, lines 209-225: the thumbnail invocation
ThumbInvocation ==
    /\ quality_pc = "frame"
    /\ thumb_qscale' = ThumbSetting(quality)
    /\ quality_pc' = "thumb"
    /\ UNCHANGED <<quality_arg, quality, frame_qscale>>
    /\ UNCHANGED notQuality

QualityNext ==
    \/ WithQuality
    \/ FrameInvocation
    \/ ThumbInvocation

\* round(31 - 0.3 * q), in tenths, halves rounded up
RoundedSetting(q) == ((310 - 3 * q) + 5) \div 10

\* C19: for every quality q in 1..100 the frame setting is
\* round(31 - 0.3*q), lies in 1..31, is 1 at q = 100 and 31 at q = 1 and
\* does not increase with q; the thumbnail setting is min(frame setting + 2,
\* 31); with_quality clamps any input to 1..100.
C19_QualitySettings ==
    /\ quality_pc # "new" =>
          /\ quality \in 1..100
          /\ quality_arg \in 1..100 => quality = quality_arg
          /\ quality_arg < 1 => quality = 1
          /\ quality_arg > 100 => quality = 100
    /\ quality_pc \in {"frame", "thumb"} =>
          /\ frame_qscale = RoundedSetting(quality)
          /\ frame_qscale \in 1..31
          /\ quality = 100 => frame_qscale = 1
          /\ quality = 1 => frame_qscale = 31
          /\ \A q \in 1..100 :
                /\ q > quality => quality_to_qscale(q) <= frame_qscale
                /\ q < quality => quality_to_qscale(q) >= frame_qscale
    /\ quality_pc = "thumb" =>
          thumb_qscale = (IF frame_qscale + 2 < 31 THEN frame_qscale + 2 ELSE 31)

\* C19 witness: with_quality(15) at a tie: 31 - 4.5 = 26.5 gives the frame
\* setting 27 and the thumbnail setting 29.
C19_Witness ==
    /\ quality_pc = "thumb"
    /\ quality_arg = 15
    /\ quality = 15
    /\ frame_qscale = 27
    /\ thumb_qscale = 29

\* C19 witness of the clamp: with_quality(0) gives quality 1, and the
\* settings 31 and 31.
C19_WitnessClamped ==
    /\ quality_pc = "thumb"
    /\ quality_arg = 0
    /\ quality = 1
    /\ frame_qscale = 31
    /\ thumb_qscale = 31


(***************************************************************************)
(* Specifications: one per component; the other components stay idle.      *)
(***************************************************************************)
ExtractIdle ==
    /\ all_entries = <<>>
    /\ thumb_width = 0
    /\ jobs = NoJobs
    /\ files = {}
    /\ pool_threads = 0
    /\ gen_pc = "idle"
    /\ ep_idx = 0
    /\ ef_pc = "idle"
    /\ tasks = <<>>
    /\ pc = <<>>
    /\ result = <<>>
    /\ invoked = <<>>
    /\ both_at_start = <<>>
    /\ full_at_begin = FALSE
    /\ late_starts = {}
    /\ progress = 0
    /\ ef_ret = NoResult

EpisodeIdle ==
    /\ name_arg = <<>>
    /\ parsed = [ok |-> FALSE, season |-> -2, episode |-> -2]

ScoreIdle ==
    /\ cands = <<>>
    /\ best = NotSelected

ScanIdle ==
    /\ root_exists = FALSE
    /\ tree = <<>>
    /\ seasons_filter = NoFilter
    /\ episodes_filter = NoFilter
    /\ scan_pc = "idle"
    /\ walk_idx = 0
    /\ video_files = EmptyMap
    /\ subtitle_files = EmptyMap
    /\ pending = {}
    /\ episodes = <<>>
    /\ probes = <<>>
    /\ scan_ret = NoScanResult

StreamIdle ==
    /\ streams = <<>>
    /\ chosen = NotChosen

ParseIdle ==
    /\ sub_format = "srt"
    /\ blocks_in = <<>>
    /\ content = <<>>
    /\ parse_ret = [kind |-> "Idle", entries |-> <<>>, line |-> 0, message |-> ""]

AssIdle ==
    /\ ass_lines_in = <<>>
    /\ ass_content = <<>>
    /\ ass_pc = "idle"
    /\ ass_lines = <<>>
    /\ line_num = 0
    /\ in_events_section = FALSE
    /\ format_indices = NoFormat
    /\ ass_index = 0
    /\ ass_entries = <<>>
    /\ ass_ret = NotParsedYet

TimestampIdle ==
    /\ ts_format = "srt"
    /\ ts_token = <<>>
    /\ ts_ret = NotCalled

QualityIdle ==
    /\ quality_arg = 0
    /\ quality = 0
    /\ quality_pc = "idle"
    /\ frame_qscale = 0
    /\ thumb_qscale = 0

NewIdIdle ==
    /\ new_season = 0
    /\ new_episode = 0
    /\ made = [ok |-> FALSE, season |-> -2, episode |-> -2]

PoolIdle ==
    /\ global_pool = 0
    /\ pool_calls = <<>>

RescanIdle ==
    scan_history = <<>>

InitExtract == ExtractInit /\ EpisodeIdle /\ ScoreIdle /\ ScanIdle /\ StreamIdle /\ ParseIdle /\ AssIdle /\ TimestampIdle /\ QualityIdle /\ NewIdIdle /\ PoolIdle /\ RescanIdle

SpecExtract == InitExtract /\ [][ExtractNext]_vars

InitEpisode == EpisodeInit /\ ExtractIdle /\ ScoreIdle /\ ScanIdle /\ StreamIdle /\ ParseIdle /\ AssIdle /\ TimestampIdle /\ QualityIdle /\ NewIdIdle /\ PoolIdle /\ RescanIdle

SpecEpisode == InitEpisode /\ [][EpisodeNext]_vars

InitScore == ScoreInit /\ ExtractIdle /\ EpisodeIdle /\ ScanIdle /\ StreamIdle /\ ParseIdle /\ AssIdle /\ TimestampIdle /\ QualityIdle /\ NewIdIdle /\ PoolIdle /\ RescanIdle

InitScan == ScanInit /\ ExtractIdle /\ EpisodeIdle /\ ScoreIdle /\ StreamIdle /\ ParseIdle /\ AssIdle /\ TimestampIdle /\ QualityIdle /\ NewIdIdle /\ PoolIdle /\ RescanIdle

SpecScan == InitScan /\ [][ScanNext]_vars

SpecScore == InitScore /\ [][ScoreNext]_vars

InitSdhDir == SdhDirInit /\ ExtractIdle /\ EpisodeIdle /\ ScanIdle /\ StreamIdle /\ ParseIdle /\ AssIdle /\ TimestampIdle /\ QualityIdle /\ NewIdIdle /\ PoolIdle /\ RescanIdle

SpecSdhDir == InitSdhDir /\ [][ScoreNext]_vars

InitStream == StreamInit /\ ExtractIdle /\ EpisodeIdle /\ ScoreIdle /\ ScanIdle /\ ParseIdle /\ AssIdle /\ TimestampIdle /\ QualityIdle /\ NewIdIdle /\ PoolIdle /\ RescanIdle

SpecStream == InitStream /\ [][StreamNext]_vars

InitParse ==
    ParseInit /\ ExtractIdle /\ EpisodeIdle /\ ScoreIdle /\ ScanIdle /\ StreamIdle /\ AssIdle /\ TimestampIdle /\ QualityIdle /\ NewIdIdle /\ PoolIdle /\ RescanIdle

SpecParse == InitParse /\ [][ParseNext]_vars

InitAss ==
    AssInit /\ ExtractIdle /\ EpisodeIdle /\ ScoreIdle /\ ScanIdle /\ StreamIdle /\ ParseIdle /\ TimestampIdle /\ QualityIdle /\ NewIdIdle /\ PoolIdle /\ RescanIdle

SpecAss == InitAss /\ [][AssNext]_vars

InitAssFields ==
    AssFieldsInit /\ ExtractIdle /\ EpisodeIdle /\ ScoreIdle /\ ScanIdle /\ StreamIdle /\ ParseIdle /\ TimestampIdle /\ QualityIdle /\ NewIdIdle /\ PoolIdle /\ RescanIdle

SpecAssFields == InitAssFields /\ [][AssNext]_vars

InitSrtFile ==
    SrtFileInit /\ ExtractIdle /\ EpisodeIdle /\ ScoreIdle /\ ScanIdle /\ StreamIdle /\ AssIdle /\ TimestampIdle /\ QualityIdle /\ NewIdIdle /\ PoolIdle /\ RescanIdle

SpecSrtFile == InitSrtFile /\ [][ParseNext]_vars

InitTimestamp ==
    TimestampInit /\ ExtractIdle /\ EpisodeIdle /\ ScoreIdle /\ ScanIdle /\ StreamIdle /\ ParseIdle /\ AssIdle /\ QualityIdle /\ NewIdIdle /\ PoolIdle /\ RescanIdle

SpecTimestamp == InitTimestamp /\ [][TimestampNext]_vars

\* either an SRT or WebVTT file or an ASS file is parsed
ParsersInit ==
    \/ ParseInit /\ AssIdle
    \/ ParseIdle /\ AssFieldsInit

ParsersNext ==
    \/ ParseNext
    \/ AssNext

InitParsers ==
    ParsersInit /\ ExtractIdle /\ EpisodeIdle /\ ScoreIdle /\ ScanIdle /\ StreamIdle /\ TimestampIdle /\ QualityIdle /\ NewIdIdle /\ PoolIdle /\ RescanIdle

SpecParsers == InitParsers /\ [][ParsersNext]_vars

InitQuality ==
    QualityInit /\ ExtractIdle /\ EpisodeIdle /\ ScoreIdle /\ ScanIdle /\ StreamIdle /\ ParseIdle /\ AssIdle /\ TimestampIdle /\ NewIdIdle /\ PoolIdle /\ RescanIdle

SpecQuality == InitQuality /\ [][QualityNext]_vars

InitPublicId ==
    PublicIdInit /\ ExtractIdle /\ ScoreIdle /\ ScanIdle /\ StreamIdle /\ ParseIdle /\ AssIdle /\ TimestampIdle /\ QualityIdle /\ PoolIdle /\ RescanIdle

SpecPublicId == InitPublicId /\ [][PublicIdNext]_vars

InitPool ==
    PoolInit /\ ExtractIdle /\ EpisodeIdle /\ ScoreIdle /\ ScanIdle /\ StreamIdle /\ ParseIdle /\ AssIdle /\ TimestampIdle /\ QualityIdle /\ NewIdIdle /\ RescanIdle

SpecPool == InitPool /\ [][PoolNext]_vars

RescanInit ==
    /\ ScanInit
    /\ scan_history = <<>>

InitRescan ==
    RescanInit /\ ExtractIdle /\ EpisodeIdle /\ ScoreIdle /\ StreamIdle /\ ParseIdle /\ AssIdle /\ TimestampIdle /\ QualityIdle /\ NewIdIdle /\ PoolIdle

SpecRescan == InitRescan /\ [][RescanNext]_vars

Spec == SpecExtract
====
